---- MODULE Spec2Model ----
(***************************************************************************)
(* Model of the peer-wire engine of Low-Level-Torrent                      *)
(* (src/Peer/BitTorrent_Protocol.py, class BitTorrent_Protocol), of the    *)
(* two connection wrappers it talks through (Peer_Connection in            *)
(* src/Peer/P2P_Communication.py and IncomingPeerConnection) and of the    *)
(* piece-digest creator (Piece_Manager in src/Core/Torrent_Metadata.py).   *)
(*                                                                         *)
(* An engine is one BitTorrent_Protocol object.  Its coroutines run on one *)
(* asyncio loop: a step of the model is what one task does between two     *)
(* suspension points.  Every Send_Message is a suspension point; on a      *)
(* dialed connection the bytes are written by a thread of the default      *)
(* executor (run_in_executor(None, Socket.sendall, ...)).                  *)
(***************************************************************************)
EXTENDS Integers, Sequences, FiniteSets, TLC

(***************************************************************************)
(* Program constants.  BLOCK_SIZE, Piece_Size and K are scaled down (the   *)
(* source has 16384, 262144 and 5); their order Piece_Size > BLOCK_SIZE is *)
(* kept, so that a piece has several blocks.                               *)
(***************************************************************************)
BLOCK_SIZE == 2
Piece_Size == 4
K == 2
HANDSHAKE_LENGTH == 80
PSTRLEN == 19
MSG_CHOKE == 0
MSG_UNCHOKE == 1
MSG_INTERESTED == 2
MSG_NOT_INTERESTED == 3
MSG_HAVE == 4
MSG_BITFIELD == 5
MSG_REQUEST == 6
MSG_PIECE == 7
MSG_CANCEL == 8
max_retries == 3

(***************************************************************************)
(* Bounds of the model.                                                    *)
(***************************************************************************)
\* PIECE frames the remote peers send in one behaviour of Spec
MaxPieceMsgs == 2
\* other frames the remote peers send in one behaviour of Spec
MaxOtherMsgs == 2
\* connections the remote peers close in one behaviour of Spec
MaxCloses == 1
\* PIECE frames and other frames the seeding peers send in one behaviour
\* of SpecSeeders
SeederPieceMsgs == 3
SeederOtherMsgs == 3
\* frames the remote leechers of the serving scenario send in one run
LeecherMsgs == 3
\* frames the remote peers of the faulty-peer scenario send in one run
FaultyPieceMsgs == 3
FaultyOtherMsgs == 2

\* The descriptor's file list (metadata.Files): a piece that spans two
\* files, a zero-length file in between, a final piece shorter than
\* Piece_Size whose only block is shorter than BLOCK_SIZE.
Files ==
    << [Path |-> "a.bin", Length |-> 2],
       [Path |-> "b.bin", Length |-> 0],
       [Path |-> "c.bin", Length |-> 3] >>

Eng == {"D", "S"}
Conn == {"c1", "c2", "c3"}
PeerIds == {"p", "q", "r"}
None == "none"

(***************************************************************************)
(* Python helpers                                                          *)
(***************************************************************************)
Min(a, b) == IF a < b THEN a ELSE b
Max(a, b) == IF a > b THEN a ELSE b

\* s[from:to] of Python for 0 <= from, to
Slice(s, from, to) ==
    LET f == Min(Max(from, 0), Len(s))
        t == Min(Max(to, 0), Len(s))
    IN  IF f >= t THEN <<>> ELSE SubSeq(s, f + 1, t)

RECURSIVE SumLen(_)
SumLen(fs) == IF fs = <<>> THEN 0 ELSE Head(fs).Length + SumLen(Tail(fs))

RECURSIVE Zeros(_)
Zeros(n) == IF n <= 0 THEN <<>> ELSE <<0>> \o Zeros(n - 1)

\* sorted(S) for a finite set of integers
RECURSIVE Sorted(_)
Sorted(S) ==
    IF S = {} THEN <<>>
    ELSE LET m == CHOOSE x \in S : \A y \in S : x <= y
         IN  <<m>> \o Sorted(S \ {m})

\* set(range(0, stop, step)), empty when stop <= 0
RangeStep(stop, step) == { k * step : k \in { j \in 0..Max(stop, 0) : j * step < stop } }

\* struct.pack('>I', v) and struct.unpack('>I', b)[0]
Pack32(v) ==
    << (v \div 16777216) % 256, (v \div 65536) % 256, (v \div 256) % 256, v % 256 >>
Unpack32(b) == b[1] * 16777216 + b[2] * 65536 + b[3] * 256 + b[4]

(***************************************************************************)
(* Digests.  A digest is its algorithm, its width in bytes and the data    *)
(* hashed: two digests are equal iff algorithm and data are (no            *)
(* collisions); a 20-byte SHA-1 digest never equals a 32-byte SHA-256 one. *)
(* hexdigest() and bytes.fromhex() are inverse encodings of a digest.      *)
(***************************************************************************)
sha256_digest(data) == [alg |-> "sha256", width |-> 32, of |-> data]
sha1_digest(data) == [alg |-> "sha1", width |-> 20, of |-> data]
hexdigest(d) == [hex |-> d]
fromhex(h) == h.hex
\* Hash_Functions.SHA256
SHA256(Data) == hexdigest(sha256_digest(Data))

(***************************************************************************)
(* The descriptor creator (Piece_Manager, Create_Torrent)                  *)
(***************************************************************************)
Get_Total_Size == SumLen(Files)

\* global offset at which file k (1-based) starts: current_offset of the
\* loops over metadata.Files
FileStart(k) == SumLen(SubSeq(Files, 1, k - 1))

\* the payload X cut into the files of the descriptor
FileContents(X) ==
    [k \in 1..Len(Files) |-> Slice(X, FileStart(k), FileStart(k) + Files[k].Length)]

\* Piece_Manager.Calculate_Pieces: F.read(Piece_Size) until empty
RECURSIVE Calculate_Pieces_From(_, _, _)
Calculate_Pieces_From(content, pos, acc) ==
    LET Piece_Data == Slice(content, pos, pos + Piece_Size)
    IN  IF Piece_Data = <<>> THEN acc
        ELSE Calculate_Pieces_From(content, pos + Piece_Size,
                                   Append(acc, SHA256(Piece_Data)))
Calculate_Pieces(content) == Calculate_Pieces_From(content, 0, <<>>)

\* Piece_Manager.Calculate_Multi_File_Pieces: Current_Piece runs across files
RECURSIVE Calculate_Multi_From(_, _, _, _, _)
Calculate_Multi_From(contents, fi, pos, Current_Piece, acc) ==
    IF fi > Len(contents)
    THEN IF Current_Piece # <<>> THEN Append(acc, SHA256(Current_Piece)) ELSE acc
    ELSE LET Bytes_Needed == Piece_Size - Len(Current_Piece)
             Chunk == Slice(contents[fi], pos, pos + Bytes_Needed)
             Joined == Current_Piece \o Chunk
         IN  IF Chunk = <<>>
             THEN Calculate_Multi_From(contents, fi + 1, 0, Current_Piece, acc)
             ELSE IF Len(Joined) = Piece_Size
                  THEN Calculate_Multi_From(contents, fi, pos + Len(Chunk), <<>>,
                                            Append(acc, SHA256(Joined)))
                  ELSE Calculate_Multi_From(contents, fi, pos + Len(Chunk), Joined, acc)
Calculate_Multi_File_Pieces(contents) == Calculate_Multi_From(contents, 1, 0, <<>>, <<>>)

\* Create_Torrent: the piece digests of the descriptor made from payload X
Create_Torrent(X) ==
    IF Len(Files) = 1 THEN Calculate_Pieces(FileContents(X)[1])
    ELSE Calculate_Multi_File_Pieces(FileContents(X))

\* piece i of payload X
TruePiece(X, i) == Slice(X, i * Piece_Size, (i + 1) * Piece_Size)

\* A descriptor of the same payload whose piece digests are SHA-1, the
\* digest _verify_piece_hash computes.  Load_Torrent / From_Dict take the
\* Piece_Hashes list as it is (no check of the digest width), so the engine
\* can be constructed on it.
Sha1_Piece_Hashes(X) ==
    [i \in 1..Len(Create_Torrent(X)) |-> hexdigest(sha1_digest(TruePiece(X, i - 1)))]

(***************************************************************************)
(* Files on disk.  A file is [exists, data]; FileWriteAt is                *)
(* open('r+b' if exists else 'wb'); seek(off); write(data) - a seek past   *)
(* the end leaves a zero-filled gap; FileReadAt is seek(off); read(n).     *)
(***************************************************************************)
NoFile == [exists |-> FALSE, data |-> <<>>]
\* a variant of the write that opens the file with 'wb' whether it exists
\* or not, which truncates it
FileWriteAt_truncating(f, off, data) ==
    [exists |-> TRUE, data |-> Zeros(off) \o data]
FileWriteAt(f, off, data) ==
    LET old == IF f.exists THEN f.data ELSE <<>>
        padded == IF Len(old) < off THEN old \o Zeros(off - Len(old)) ELSE old
    IN  [exists |-> TRUE,
         data |-> Slice(padded, 0, off) \o data \o Slice(padded, off + Len(data), Len(padded))]
FileReadAt(f, off, n) == Slice(f.data, off, off + n)

\* the disk of an engine holding exactly the payload X
DiskOf(X) == [k \in 1..Len(Files) |-> [exists |-> TRUE, data |-> FileContents(X)[k]]]
EmptyDisk == [k \in 1..Len(Files) |-> NoFile]

(***************************************************************************)
(* The piece store of BitTorrent_Protocol, as functions of the state they  *)
(* read.  A piece buffer maps block offsets to block data.                 *)
(***************************************************************************)
\* min(self.piece_size, Get_Total_Size() - piece_index * self.piece_size)
piece_length(piece_index) ==
    Min(Piece_Size, Get_Total_Size - piece_index * Piece_Size)

\* the blocks of a buffer concatenated in ascending offset order
RECURSIVE ConcatBlocks(_, _)
ConcatBlocks(piece_buffer, offsets) ==
    IF offsets = <<>> THEN <<>>
    ELSE piece_buffer[Head(offsets)] \o ConcatBlocks(piece_buffer, Tail(offsets))
AssemblePiece(piece_buffer) == ConcatBlocks(piece_buffer, Sorted(DOMAIN piece_buffer))

\* BitTorrent_Protocol._is_piece_complete
is_piece_complete(piece_buffers, piece_index) ==
    IF piece_index \notin DOMAIN piece_buffers THEN FALSE
    ELSE LET piece_buffer == piece_buffers[piece_index]
             piece_size == piece_length(piece_index)
             expected_blocks == (piece_size + BLOCK_SIZE - 1) \div BLOCK_SIZE
             total_data_size == Len(AssemblePiece(piece_buffer))
             expected_offsets == RangeStep(piece_size, BLOCK_SIZE)
             actual_offsets == DOMAIN piece_buffer
         IN  /\ expected_offsets = actual_offsets
             /\ total_data_size = piece_size
             /\ Cardinality(DOMAIN piece_buffer) = expected_blocks

\* BitTorrent_Protocol._verify_piece_hash: hashlib.sha1(piece_data).digest()
\* against bytes.fromhex(Piece_Hashes[piece_index])
verify_piece_hash(piece_buffers, hashes, piece_index) ==
    IF piece_index \notin DOMAIN piece_buffers THEN FALSE
    ELSE sha1_digest(AssemblePiece(piece_buffers[piece_index]))
             = fromhex(hashes[piece_index + 1])

\* BitTorrent_Protocol._write_piece_to_files from file k on.  fail_at is the
\* file whose open/write raises (0: none); the result says whether the
\* loop ran to its end.
RECURSIVE WriteFrom(_, _, _, _, _)
WriteFrom(dsk, piece_data, piece_index, k, fail_at) ==
    IF k > Len(Files) THEN [disk |-> dsk, ok |-> TRUE]
    ELSE LET file_start == FileStart(k)
             file_end == file_start + Files[k].Length
             piece_start == piece_index * Piece_Size
             piece_end == piece_start + Len(piece_data)
             overlap_start == Max(piece_start, file_start)
             overlap_end == Min(piece_end, file_end)
         IN  IF piece_start < file_end /\ piece_end > file_start /\ overlap_start < overlap_end
             THEN IF k = fail_at THEN [disk |-> dsk, ok |-> FALSE]
                  ELSE WriteFrom(
                         [dsk EXCEPT ![k] =
                            FileWriteAt(@, overlap_start - file_start,
                                        Slice(piece_data, overlap_start - piece_start,
                                              overlap_end - piece_start))],
                         piece_data, piece_index, k + 1, fail_at)
             ELSE WriteFrom(dsk, piece_data, piece_index, k + 1, fail_at)
write_piece_to_files(dsk, piece_buffers, piece_index, fail_at) ==
    IF piece_index \notin DOMAIN piece_buffers THEN [disk |-> dsk, ok |-> TRUE]
    ELSE WriteFrom(dsk, AssemblePiece(piece_buffers[piece_index]), piece_index, 1, fail_at)

\* the bytes _verify_piece_from_files reads for a piece: the overlaps with
\* the files that exist, in file order
RECURSIVE ReadPieceFrom(_, _, _)
ReadPieceFrom(dsk, piece_index, k) ==
    IF k > Len(Files) THEN <<>>
    ELSE LET file_start == FileStart(k)
             file_end == file_start + Files[k].Length
             piece_start == piece_index * Piece_Size
             piece_end == piece_start + piece_length(piece_index)
             overlap_start == Max(piece_start, file_start)
             overlap_end == Min(piece_end, file_end)
             data == IF /\ piece_start < file_end /\ piece_end > file_start
                        /\ overlap_start < overlap_end /\ dsk[k].exists
                     THEN FileReadAt(dsk[k], overlap_start - file_start,
                                     overlap_end - overlap_start)
                     ELSE <<>>
         IN  data \o ReadPieceFrom(dsk, piece_index, k + 1)

\* BitTorrent_Protocol._verify_piece_from_files: hashlib.sha256
verify_piece_from_files(dsk, hashes, piece_index) ==
    LET piece_data == ReadPieceFrom(dsk, piece_index, 1)
    IN  IF Len(piece_data) = piece_length(piece_index)
        THEN sha256_digest(piece_data) = fromhex(hashes[piece_index + 1])
        ELSE FALSE

\* BitTorrent_Protocol._read_block_from_files: returns at the first file
\* that overlaps the block.  [ok, data]; ok = FALSE is None.
RECURSIVE ReadBlockFrom(_, _, _, _, _)
ReadBlockFrom(dsk, piece_index, block_offset, block_length, k) ==
    IF k > Len(Files) THEN [ok |-> FALSE, data |-> <<>>]
    ELSE LET file_start == FileStart(k)
             file_end == file_start + Files[k].Length
             block_start == piece_index * Piece_Size + block_offset
             block_end == block_start + block_length
             file_read_start == Max(block_start - file_start, 0)
             file_read_end == Min(block_end - file_start, Files[k].Length)
         IN  IF block_start < file_end /\ block_end > file_start
                /\ file_read_start < file_read_end
             THEN IF ~dsk[k].exists THEN [ok |-> FALSE, data |-> <<>>]
                  ELSE LET data == FileReadAt(dsk[k], file_read_start,
                                              file_read_end - file_read_start)
                       IN  IF block_start >= file_start
                           THEN [ok |-> TRUE, data |-> data]
                           ELSE [ok |-> TRUE,
                                 data |-> Zeros(file_start - block_start) \o data]
             ELSE ReadBlockFrom(dsk, piece_index, block_offset, block_length, k + 1)
read_block_from_files(dsk, piece_index, block_offset, block_length) ==
    ReadBlockFrom(dsk, piece_index, block_offset, block_length, 1)

(***************************************************************************)
(* Wire messages.  A message is the (msg_id, payload) handed to            *)
(* create_message, which builds the frame from it.                         *)
(***************************************************************************)
Msg(msg_id, payload) == [id |-> msg_id, payload |-> payload]

\* BitTorrent_Protocol.create_message
create_message(m) == Pack32(1 + Len(m.payload)) \o <<m.id>> \o m.payload

\* BitTorrent_Protocol.parse_message; ok = FALSE is None
parse_message(data) ==
    IF Len(data) < 4 THEN [ok |-> FALSE, id |-> 0, payload |-> <<>>]
    ELSE LET length == Unpack32(Slice(data, 0, 4))
         IN  IF length = 0 \/ Len(data) < 4 + length
             THEN [ok |-> FALSE, id |-> 0, payload |-> <<>>]
             ELSE [ok |-> TRUE, id |-> data[5], payload |-> Slice(data, 5, 4 + length)]

\* Peer_Connection.Send_Message (no Encryption handler): a length prefix
\* in front of the message it is given
Peer_Connection_Send(Message) == Pack32(Len(Message)) \o Message
\* IncomingPeerConnection.Send_Message: writer.write(data)
Incoming_Send(data) == data
\* Peer_Connection.Receive_Message: recv(4), recv(Message_Length), returns
\* the message without the length (ok = FALSE is None)
Peer_Connection_Receive(bytes) ==
    IF Len(bytes) < 4 THEN [ok |-> FALSE, data |-> <<>>]
    ELSE [ok |-> TRUE, data |-> Slice(bytes, 4, 4 + Unpack32(Slice(bytes, 0, 4)))]
\* IncomingPeerConnection.Receive_Message: returns length_data + payload
Incoming_Receive(bytes) ==
    IF Len(bytes) < 4 THEN [ok |-> FALSE, data |-> <<>>]
    ELSE LET length == Unpack32(Slice(bytes, 0, 4))
         IN  IF length = 0 THEN [ok |-> TRUE, data |-> Slice(bytes, 0, 4)]
             ELSE IF Len(bytes) < 4 + length THEN [ok |-> FALSE, data |-> <<>>]
                  ELSE [ok |-> TRUE, data |-> Slice(bytes, 0, 4 + length)]

Send_Message(kind, frame) ==
    IF kind = "dialed" THEN Peer_Connection_Send(frame) ELSE Incoming_Send(frame)
Receive_Message(kind, bytes) ==
    IF kind = "dialed" THEN Peer_Connection_Receive(bytes) ELSE Incoming_Receive(bytes)

create_have_message(piece_index) == Msg(MSG_HAVE, Pack32(piece_index))
create_request_message(piece_index, block_offset, block_length) ==
    Msg(MSG_REQUEST, Pack32(piece_index) \o Pack32(block_offset) \o Pack32(block_length))
piece_message(piece_index, block_offset, block_data) ==
    Msg(MSG_PIECE, Pack32(piece_index) \o Pack32(block_offset) \o block_data)

RECURSIVE SumBits(_)
SumBits(S) ==
    IF S = {} THEN 0
    ELSE LET p == CHOOSE x \in S : TRUE IN 2 ^ (7 - (p % 8)) + SumBits(S \ {p})

\* BitTorrent_Protocol.create_bitfield_message
create_bitfield_message(have, n) ==
    Msg(MSG_BITFIELD,
        [byte_index \in 1..((n + 7) \div 8) |->
            SumBits({ piece \in have : piece \div 8 = byte_index - 1 })])

\* BitTorrent_Protocol.parse_bitfield_message
parse_bitfield_message(payload, n) ==
    { piece_index \in 0..(8 * Len(payload) - 1) :
        /\ (payload[(piece_index \div 8) + 1] \div (2 ^ (7 - (piece_index % 8)))) % 2 = 1
        /\ piece_index < n }

\* the bits of a BITFIELD payload that parse_bitfield_message passes over:
\* set, at a position that is no piece of the torrent
SpareBits(payload, n) ==
    { piece_index \in 0..(8 * Len(payload) - 1) :
        /\ (payload[(piece_index \div 8) + 1] \div (2 ^ (7 - (piece_index % 8)))) % 2 = 1
        /\ piece_index >= n }

\* BitTorrent_Protocol.parse_have_message; ok = FALSE is None
parse_have_message(payload) ==
    IF Len(payload) # 4 THEN [ok |-> FALSE, piece_index |-> 0]
    ELSE [ok |-> TRUE, piece_index |-> Unpack32(payload)]

\* BitTorrent_Protocol.parse_request_message
parse_request_message(payload) ==
    IF Len(payload) # 12 THEN [ok |-> FALSE, piece_index |-> 0, block_offset |-> 0,
                               block_length |-> 0]
    ELSE [ok |-> TRUE, piece_index |-> Unpack32(Slice(payload, 0, 4)),
          block_offset |-> Unpack32(Slice(payload, 4, 8)),
          block_length |-> Unpack32(Slice(payload, 8, 12))]

\* BitTorrent_Protocol.parse_piece_message
parse_piece_message(payload) ==
    IF Len(payload) < 8 THEN [ok |-> FALSE, piece_index |-> 0, block_offset |-> 0,
                              block_data |-> <<>>]
    ELSE [ok |-> TRUE, piece_index |-> Unpack32(Slice(payload, 0, 4)),
          block_offset |-> Unpack32(Slice(payload, 4, 8)),
          block_data |-> Slice(payload, 8, Len(payload))]

\* Torrent_Metadata._Calculate_Info_Hash: a digest of the info subset
Info_Hash(hashes) == SHA256(<<Piece_Size, hashes>>)

\* BitTorrent_Protocol.create_handshake: an 80-byte frame, here its fields
create_handshake(hashes) ==
    [len |-> 1 + PSTRLEN + 8 + 32 + 20, pstrlen |-> PSTRLEN,
     pstr |-> "BitTorrent protocol", info_hash |-> fromhex(Info_Hash(hashes))]

\* BitTorrent_Protocol.perform_handshake, from the response
\* Receive_Handshake returned (len = 0: no response)
handshake_accepts(hashes, response) ==
    /\ response.len = HANDSHAKE_LENGTH
    /\ response.pstrlen = PSTRLEN
    /\ response.pstr = "BitTorrent protocol"
    /\ response.info_hash = fromhex(Info_Hash(hashes))

(***************************************************************************)
(* State                                                                   *)
(***************************************************************************)
VARIABLES
    payload,            \* the published content the descriptor was made from
    Piece_Hashes,       \* metadata.Piece_Hashes of the loaded descriptor
    have_pieces,        \* engine -> self.have_pieces
    requested_pieces,   \* engine -> self.requested_pieces
    piece_buffers,      \* engine -> self.piece_buffers
    disk,               \* engine -> the files under self.download_dir
    loaded,             \* engine -> load_existing_pieces has run
    peers,              \* engine -> self.peers: Peer_Id -> Peer_State object
    active_peers,       \* engine -> self.active_peers, in insertion order
    peer_state,         \* the Peer_State object made by a connection's handshake
    conn,               \* connection -> its kind, Peer_Id, engine and far end
    task,               \* connection -> where its coroutine stands
    captured,           \* connection -> peer_state local of handle_peer_messages
    wire,               \* connection -> messages written to its socket so far
    sending,            \* connection's task -> sendall handed to the executor
    delivered,          \* connection -> messages of the far end it has received
    outstanding,        \* connection -> REQUESTs sent and not answered
    commits,            \* engine -> piece -> times the piece was committed
    last_verify,        \* the last call of _verify_piece_hash and its result
    sent_by_peers,      \* messages the remote peers have sent so far
    handshake_out,      \* connection -> handshakes written to its present socket
    dst                 \* the descriptor object, its .dst file and what Load_Torrent gave

vars ==
    << payload, Piece_Hashes, have_pieces, requested_pieces, piece_buffers, disk,
       loaded, peers, active_peers, peer_state, conn, task, captured, wire, sending,
       delivered, outstanding, commits, last_verify, sent_by_peers, handshake_out,
       dst >>

total_pieces == Len(Piece_Hashes)
AllPieces == 0..(total_pieces - 1)

\* the mutable program state as one record, for the handlers below
Now ==
    [ have |-> have_pieces, requested |-> requested_pieces, buffers |-> piece_buffers,
      disk |-> disk, peers |-> peers, active |-> active_peers, ps |-> peer_state,
      conn |-> conn, task |-> task, captured |-> captured, wire |-> wire,
      sending |-> sending, outstanding |-> outstanding, commits |-> commits,
      last_verify |-> last_verify, handshake_out |-> handshake_out ]

Becomes(S) ==
    /\ have_pieces' = S.have
    /\ requested_pieces' = S.requested
    /\ piece_buffers' = S.buffers
    /\ disk' = S.disk
    /\ peers' = S.peers
    /\ active_peers' = S.active
    /\ peer_state' = S.ps
    /\ conn' = S.conn
    /\ task' = S.task
    /\ captured' = S.captured
    /\ wire' = S.wire
    /\ sending' = S.sending
    /\ outstanding' = S.outstanding
    /\ commits' = S.commits
    /\ last_verify' = S.last_verify
    /\ handshake_out' = S.handshake_out

NoSend == [to |-> None, msg |-> Msg(MSG_CHOKE, <<>>)]
NoConn == [kind |-> None, Peer_Id |-> None, engine |-> None, far |-> None]
NoVerify == [piece_index |-> -1, piece_data |-> <<>>, accepted |-> FALSE]

\* Peer_State(connected=True): the dataclass defaults
Peer_State ==
    [ connected |-> TRUE, choked |-> TRUE, interested |-> FALSE, peer_choked |-> TRUE,
      peer_interested |-> FALSE, downloaded_pieces |-> {} ]

EngineOf(S, c) == S.conn[c].engine
\* self.peers.get(peer_conn.Peer_Id): the object's name
StateOf(S, c) == S.peers[EngineOf(S, c)][S.conn[c].Peer_Id]

\* await target.Send_Message(create_message(m)) in the task of connection t.
\* IncomingPeerConnection writes to its StreamWriter; Peer_Connection hands
\* Socket.sendall to the executor.  A REQUEST becomes outstanding.
Send(S, t, target, m) ==
    LET S1 == IF m.id = MSG_REQUEST
              THEN [S EXCEPT !.outstanding[target] = @ \cup {m.payload}]
              ELSE S
    IN  IF S.conn[target].kind = "inbound"
        THEN [S1 EXCEPT !.wire[target] = Append(@, m)]
        ELSE [S1 EXCEPT !.sending[t] = [to |-> target, msg |-> m]]

\* handle_peer_messages: the finally clause
HandlerExit(S, c) ==
    [S EXCEPT !.ps[S.captured[c]].connected = FALSE, !.task[c] = [pc |-> "ended"]]

\* handle_peer_messages: process_message returned, the loop tests
\* peer_state.connected
TaskDone(S, c) ==
    IF S.ps[S.captured[c]].connected
    THEN [S EXCEPT !.task[c] = [pc |-> "idle"]]
    ELSE HandlerExit(S, c)

\* handle_peer_messages: the first lines, when the BITFIELD send returned
StartHandler(S, c) ==
    LET S1 == [S EXCEPT !.captured[c] = StateOf(S, c)]
    IN  TaskDone(S1, c)

\* BitTorrent_Protocol.send_interested up to its send
send_interested(S, c) ==
    LET ref == StateOf(S, c)
    IN  IF ~S.ps[ref].interested
        THEN [Send(S, c, c, Msg(MSG_INTERESTED, <<>>)) EXCEPT
                 !.task[c] = [pc |-> "interested", ref |-> ref]]
        ELSE TaskDone(S, c)

\* send_interested after its send: peer_state.interested = True
after_interested(S, c) ==
    TaskDone([S EXCEPT !.ps[S.task[c].ref].interested = TRUE], c)

\* request_pieces_from_peer: sum(1 for p in self.peers.values() if
\* p.downloaded_pieces and piece in p.downloaded_pieces)
piece_rarity(S, e, piece) ==
    Cardinality({ id \in PeerIds :
                    /\ S.peers[e][id] # None
                    /\ piece \in S.ps[S.peers[e][id]].downloaded_pieces })

\* sorted(piece_rarity.keys(), key=lambda p: (piece_rarity[p], p))
RECURSIVE sorted_pieces(_, _, _)
sorted_pieces(S, e, available_pieces) ==
    IF available_pieces = {} THEN <<>>
    ELSE LET first == CHOOSE p \in available_pieces :
                        \A q \in available_pieces :
                            \/ piece_rarity(S, e, p) < piece_rarity(S, e, q)
                            \/ piece_rarity(S, e, p) = piece_rarity(S, e, q) /\ p <= q
         IN  <<first>> \o sorted_pieces(S, e, available_pieces \ {first})

\* request_pieces_from_peer: the send of one block request of the round;
\* ref is the round's peer_state local
\* a variant of the block request that asks for BLOCK_SIZE bytes always
request_block_whole(S, c, pieces, piece_index, block_index, blocks_needed, piece_size) ==
    LET block_offset == block_index * BLOCK_SIZE
    IN  [Send(S, c, c, create_request_message(piece_index, block_offset, BLOCK_SIZE))
            EXCEPT !.task[c] = [pc |-> "round", ref |-> S.task[c].ref, pieces |-> pieces,
                                piece_index |-> piece_index,
                                block_index |-> block_index + 1,
                                blocks_needed |-> blocks_needed,
                                piece_size |-> piece_size]]

request_block(S, c, pieces, piece_index, block_index, blocks_needed, piece_size) ==
    LET block_offset == block_index * BLOCK_SIZE
        block_length == Min(BLOCK_SIZE, piece_size - block_offset)
    IN  [Send(S, c, c, create_request_message(piece_index, block_offset, block_length))
            EXCEPT !.task[c] = [pc |-> "round", ref |-> S.task[c].ref, pieces |-> pieces,
                                piece_index |-> piece_index,
                                block_index |-> block_index + 1,
                                blocks_needed |-> blocks_needed,
                                piece_size |-> piece_size]]

\* request_pieces_from_peer: the loop over pieces_to_request, from the
\* pieces still to visit up to the next send
RECURSIVE request_loop(_, _, _)
request_loop(S, c, pieces) ==
    IF pieces = <<>> THEN TaskDone(S, c)
    ELSE LET e == EngineOf(S, c)
             piece_index == Head(pieces)
         IN  IF piece_index \in S.requested[e] THEN request_loop(S, c, Tail(pieces))
             ELSE LET S1 == [S EXCEPT !.requested[e] = @ \cup {piece_index}]
                      piece_size == piece_length(piece_index)
                      blocks_needed == (piece_size + BLOCK_SIZE - 1) \div BLOCK_SIZE
                  IN  IF blocks_needed <= 0 THEN request_loop(S1, c, Tail(pieces))
                      ELSE request_block(S1, c, Tail(pieces), piece_index, 0,
                                         blocks_needed, piece_size)

\* request_pieces_from_peer after a block request was sent
continue_round(S, c) ==
    LET t == S.task[c]
    IN  IF t.block_index < t.blocks_needed
        THEN request_block(S, c, t.pieces, t.piece_index, t.block_index,
                           t.blocks_needed, t.piece_size)
        ELSE request_loop(S, c, t.pieces)

\* BitTorrent_Protocol.request_pieces_from_peer up to its first send
request_pieces_from_peer(S, c) ==
    LET e == EngineOf(S, c)
        ps == S.ps[StateOf(S, c)]
        available_pieces == (ps.downloaded_pieces \ S.have[e]) \ S.requested[e]
    IN  IF ps.peer_choked \/ available_pieces = {} THEN TaskDone(S, c)
        ELSE request_loop([S EXCEPT !.task[c] = [pc |-> "round", ref |-> StateOf(S, c)]],
                          c, Slice(sorted_pieces(S, e, available_pieces), 0, K))

\* _broadcast_have_message: the loop over self.active_peers.values().  The
\* dict iterator raises RuntimeError when the dict changed size since the
\* loop began; the exception ends handle_peer_messages.
broadcast_have_message(S, c) ==
    LET t == S.task[c]
        active == S.active[EngineOf(S, c)]
    IN  IF Len(active) # t.size THEN HandlerExit(S, c)
        ELSE IF t.pos > Len(active) THEN TaskDone(S, c)
        ELSE [Send(S, c, active[t.pos].conn, create_have_message(t.piece_index))
                 EXCEPT !.task[c] = [pc |-> "bcast", piece_index |-> t.piece_index,
                                     pos |-> t.pos + 1, size |-> t.size]]

\* a variant of the commit that announces the piece whatever the write did
commit_piece_announcing_always(S, c, piece_index, w) ==
    LET e == EngineOf(S, c)
        S1 == [S EXCEPT !.disk[e] = w.disk,
                        !.task[c] = [pc |-> "bcast", piece_index |-> piece_index,
                                     pos |-> 1, size |-> Len(S.active[e])]]
    IN  broadcast_have_message(S1, c)

\* handle_received_block after a successful verification: the write (w is
\* its outcome), the marking of the piece and the HAVE broadcast
commit_piece(S, c, piece_index, w) ==
    LET e == EngineOf(S, c)
    IN  IF ~w.ok THEN HandlerExit([S EXCEPT !.disk[e] = w.disk], c)
        ELSE LET S1 == [S EXCEPT
                          !.disk[e] = w.disk,
                          !.have[e] = @ \cup {piece_index},
                          !.requested[e] = @ \ {piece_index},
                          !.buffers[e] = [i \in (DOMAIN @) \ {piece_index} |-> @[i]],
                          !.commits[e][piece_index] = @ + 1,
                          !.task[c] = [pc |-> "bcast", piece_index |-> piece_index,
                                       pos |-> 1, size |-> Len(S.active[e])]]
             IN  broadcast_have_message(S1, c)

\* BitTorrent_Protocol.handle_received_block
handle_received_block(S, c, piece_index, block_offset, block_data, fail_at) ==
    LET e == EngineOf(S, c)
        old == IF piece_index \in DOMAIN S.buffers[e] THEN S.buffers[e][piece_index]
               ELSE << >>
        piece_buffer == [o \in (DOMAIN old) \cup {block_offset} |->
                            IF o = block_offset THEN block_data ELSE old[o]]
        buffers == [i \in (DOMAIN S.buffers[e]) \cup {piece_index} |->
                        IF i = piece_index THEN piece_buffer ELSE S.buffers[e][i]]
        answered == Pack32(piece_index) \o Pack32(block_offset) \o Pack32(Len(block_data))
        S1 == [S EXCEPT !.buffers[e] = buffers, !.outstanding[c] = @ \ {answered}]
    IN  IF is_piece_complete(buffers, piece_index)
        THEN LET accepted == verify_piece_hash(buffers, Piece_Hashes, piece_index)
                 S2 == [S1 EXCEPT !.last_verify =
                            [piece_index |-> piece_index,
                             piece_data |-> AssemblePiece(piece_buffer),
                             accepted |-> accepted]]
             IN  IF accepted
                 THEN commit_piece(S2, c, piece_index,
                                   write_piece_to_files(S.disk[e], buffers, piece_index,
                                                        fail_at))
                 ELSE TaskDone([S2 EXCEPT
                                  !.buffers[e] = [i \in (DOMAIN @) \ {piece_index} |-> @[i]],
                                  !.requested[e] = @ \ {piece_index}], c)
        ELSE TaskDone(S1, c)

\* BitTorrent_Protocol.send_piece_block up to its send
send_piece_block(S, c, piece_index, block_offset, block_length) ==
    LET e == EngineOf(S, c)
        block == read_block_from_files(S.disk[e], piece_index, block_offset, block_length)
    IN  IF piece_index \notin S.have[e] THEN TaskDone(S, c)
        ELSE IF block.ok /\ block.data # <<>> /\ Len(block.data) = block_length
        THEN [Send(S, c, c, piece_message(piece_index, block_offset, block.data))
                 EXCEPT !.task[c] = [pc |-> "sent"]]
        ELSE TaskDone(S, c)

\* BitTorrent_Protocol.process_message
process_message(S, c, msg_id, msg_payload, fail_at) ==
    LET e == EngineOf(S, c)
        ref == StateOf(S, c)
    IN  CASE msg_id = MSG_CHOKE ->
               TaskDone([S EXCEPT !.ps[ref].peer_choked = TRUE], c)
          [] msg_id = MSG_UNCHOKE ->
               LET S1 == [S EXCEPT !.ps[ref].peer_choked = FALSE]
               IN  IF S.ps[ref].interested THEN request_pieces_from_peer(S1, c)
                   ELSE TaskDone(S1, c)
          [] msg_id = MSG_INTERESTED ->
               TaskDone([S EXCEPT !.ps[ref].peer_interested = TRUE], c)
          [] msg_id = MSG_NOT_INTERESTED ->
               TaskDone([S EXCEPT !.ps[ref].peer_interested = FALSE], c)
          [] msg_id = MSG_HAVE ->
               LET have == parse_have_message(msg_payload)
               IN  IF have.ok
                   THEN TaskDone([S EXCEPT !.ps[ref].downloaded_pieces =
                                               @ \cup {have.piece_index}], c)
                   ELSE TaskDone(S, c)
          [] msg_id = MSG_BITFIELD ->
               LET pieces == parse_bitfield_message(msg_payload, total_pieces)
                   S1 == [S EXCEPT !.ps[ref].downloaded_pieces = pieces]
               IN  IF pieces \ S.have[e] # {} THEN send_interested(S1, c)
                   ELSE TaskDone(S1, c)
          [] msg_id = MSG_REQUEST ->
               LET r == parse_request_message(msg_payload)
               IN  IF r.ok
                   THEN send_piece_block(S, c, r.piece_index, r.block_offset, r.block_length)
                   ELSE TaskDone(S, c)
          [] msg_id = MSG_PIECE ->
               LET r == parse_piece_message(msg_payload)
               IN  IF r.ok
                   THEN handle_received_block(S, c, r.piece_index, r.block_offset,
                                              r.block_data, fail_at)
                   ELSE TaskDone(S, c)
          [] OTHER -> TaskDone(S, c)

(***************************************************************************)
(* What the environment supplies                                           *)
(***************************************************************************)
\* contents of the published files
Payloads == { <<1, 2, 3, 4, 5>> }

\* handshake responses: the right one, one of another torrent, none, one
\* of another protocol
Handshakes ==
    { create_handshake(Piece_Hashes),
      [create_handshake(Piece_Hashes) EXCEPT !.info_hash = fromhex(Info_Hash(<<>>))],
      [create_handshake(Piece_Hashes) EXCEPT !.len = 0],
      [create_handshake(Piece_Hashes) EXCEPT !.pstrlen = 0, !.pstr = ""] }

\* the published bytes of a block
GoodBlock(piece_index, block_offset) ==
    Slice(TruePiece(payload, piece_index), block_offset, block_offset + BLOCK_SIZE)

\* PIECE frames a remote peer may send, as parse_message returns them:
\* every block of the content, a block that is not the published one, a
\* block of a piece the torrent does not have
PieceMessages ==
    { piece_message(i, o, GoodBlock(i, o)) :
        <<i, o>> \in { x \in AllPieces \X {0, BLOCK_SIZE} : GoodBlock(x[1], x[2]) # <<>> } }
    \cup { piece_message(total_pieces - 1, 0, Zeros(Len(GoodBlock(total_pieces - 1, 0)))),
           piece_message(total_pieces, 0, Zeros(BLOCK_SIZE)) }

\* the other frames a remote peer may send
OtherMessages ==
    { Msg(id, <<>>) : id \in {MSG_CHOKE, MSG_UNCHOKE, MSG_HAVE} }
    \cup { create_have_message(total_pieces - 1), create_have_message(total_pieces) }
    \cup { Msg(MSG_BITFIELD, <<224>>) }
    \cup { create_request_message(0, 1, BLOCK_SIZE) }

\* frames of a remote peer that seeds the content: its BITFIELD, its choke
\* state, the published blocks
SeederMessages ==
    { Msg(MSG_BITFIELD, create_bitfield_message(AllPieces, total_pieces).payload),
      Msg(MSG_CHOKE, <<>>), Msg(MSG_UNCHOKE, <<>>) }
    \cup { piece_message(i, o, GoodBlock(i, o)) :
             <<i, o>> \in { x \in AllPieces \X {0, BLOCK_SIZE} : GoodBlock(x[1], x[2]) # <<>> } }

\* frames of a remote peer that downloads: its interest, a CANCEL, REQUESTs
\* for whole blocks, for a block that lies in two files, for the last
\* piece, for a range past the end of the last piece, for more than a
\* block, for a piece the torrent does not have
LeecherMessages ==
    { Msg(MSG_INTERESTED, <<>>), Msg(MSG_NOT_INTERESTED, <<>>),
      Msg(MSG_CANCEL, create_request_message(0, 0, BLOCK_SIZE).payload) }
    \cup { create_request_message(0, 0, BLOCK_SIZE),
           create_request_message(0, BLOCK_SIZE, BLOCK_SIZE),
           create_request_message(0, 1, BLOCK_SIZE),
           create_request_message(total_pieces - 1, 0, piece_length(total_pieces - 1)),
           create_request_message(total_pieces - 1, 0, BLOCK_SIZE),
           create_request_message(0, 0, 2 * BLOCK_SIZE),
           create_request_message(total_pieces, 0, BLOCK_SIZE) }

\* frames of a remote peer that misbehaves: a BITFIELD with a bit set past
\* the last piece, an UNCHOKE, the whole last piece with bytes that are not
\* the published ones
FaultyMessages ==
    { Msg(MSG_BITFIELD, <<224>>), Msg(MSG_UNCHOKE, <<>>),
      piece_message(total_pieces - 1, 0, Zeros(piece_length(total_pieces - 1))) }

\* the file whose write raises, when a frame leads to a write (0: none)
FailAt == {0, Len(Files)}

(***************************************************************************)
(* Initial states                                                          *)
(***************************************************************************)
NumPieces == (Get_Total_Size + Piece_Size - 1) \div Piece_Size

\* a connection whose coroutine has not run: attempt and retry_delay of
\* _connect_single_peer at their first values, and no asyncio.sleep yet
NotStarted == [pc |-> "none", attempt |-> 0, retry_delay |-> 1, slept |-> << >>]

InitEngines ==
    /\ have_pieces = [e \in Eng |-> {}]
    /\ requested_pieces = [e \in Eng |-> {}]
    /\ piece_buffers = [e \in Eng |-> << >>]
    /\ loaded = [e \in Eng |-> FALSE]
    /\ peers = [e \in Eng |-> [id \in PeerIds |-> None]]
    /\ active_peers = [e \in Eng |-> << >>]
    /\ peer_state = [c \in Conn |-> [Peer_State EXCEPT !.connected = FALSE]]
    /\ task = [c \in Conn |-> NotStarted]
    /\ captured = [c \in Conn |-> None]
    /\ wire = [c \in Conn |-> << >>]
    /\ sending = [c \in Conn |-> NoSend]
    /\ delivered = [c \in Conn |-> 0]
    /\ outstanding = [c \in Conn |-> {}]
    /\ commits = [e \in Eng |-> [i \in 0..(NumPieces - 1) |-> 0]]
    /\ last_verify = NoVerify
    /\ handshake_out = [c \in Conn |-> << >>]
    /\ sent_by_peers = [piece |-> 0, other |-> 0, closes |-> 0, corrupt |-> {}, spare |-> {}]

\* One engine, D, among remote peers that may send anything.  The descriptor
\* was loaded by Load_Torrent, which takes the digest strings as they are:
\* the creator's (SHA-256) or ones _verify_piece_hash can match (SHA-1).
\* The download directory holds the published files or, with digests the
\* download path can match, nothing.
Init ==
    /\ payload \in Payloads
    /\ \E world \in {"sha256-full", "sha1-empty"} :
          /\ Piece_Hashes = IF world = "sha1-empty" THEN Sha1_Piece_Hashes(payload)
                            ELSE Create_Torrent(payload)
          /\ disk = [e \in Eng |-> IF e = "D" /\ world = "sha256-full"
                                   THEN DiskOf(payload) ELSE EmptyDisk]
    /\ conn = [c \in Conn |-> NoConn]
    /\ InitEngines
    /\ dst = [pc |-> "off"]

\* Engine D, started on an empty directory with a descriptor whose digests
\* the download path can match, among remote peers that seed.
InitSeeders ==
    /\ payload \in Payloads
    /\ Piece_Hashes = Sha1_Piece_Hashes(payload)
    /\ disk = [e \in Eng |-> EmptyDisk]
    /\ conn = [c \in Conn |-> NoConn]
    /\ InitEngines
    /\ dst = [pc |-> "off"]

\* Two engines: S seeds the published files, D downloads into an empty
\* directory and dials S.  c1 is D's Peer_Connection, c2 is the
\* IncomingPeerConnection S accepts for it.
InitE2E ==
    /\ payload \in [1..Get_Total_Size -> 1..2]
    /\ Piece_Hashes = Create_Torrent(payload)
    /\ disk = [e \in Eng |-> IF e = "S" THEN DiskOf(payload) ELSE EmptyDisk]
    /\ conn = [c \in Conn |->
                 CASE c = "c1" ->
                        [kind |-> "dialed", Peer_Id |-> "p", engine |-> "D", far |-> "c2"]
                   [] c = "c2" ->
                        [kind |-> "inbound", Peer_Id |-> "q", engine |-> "S", far |-> "c1"]
                   [] OTHER -> NoConn]
    /\ InitEngines
    /\ dst = [pc |-> "off"]

\* Seed_Torrent: engine D on the directory of the published files, with
\* the creator's descriptor, before load_existing_pieces and the server.
InitServing ==
    /\ payload \in Payloads
    /\ Piece_Hashes = Create_Torrent(payload)
    /\ disk = [e \in Eng |-> IF e = "D" THEN DiskOf(payload) ELSE EmptyDisk]
    /\ conn = [c \in Conn |-> NoConn]
    /\ InitEngines
    /\ dst = [pc |-> "off"]

(***************************************************************************)
(* Actions                                                                 *)
(***************************************************************************)
\* BitTorrent_Protocol.load_existing_pieces, which Seed_Torrent calls before
\* it starts the server and Download_Torrent does not call
CanLoad(e) ==
    /\ ~loaded[e]
    /\ \A c \in Conn : conn[c].engine = e => task[c].pc = "none"

load_existing_pieces(e) ==
    /\ CanLoad(e)
    /\ loaded' = [loaded EXCEPT ![e] = TRUE]
    /\ have_pieces' = [have_pieces EXCEPT ![e] =
          @ \cup { piece_index \in AllPieces :
                     verify_piece_from_files(disk[e], Piece_Hashes, piece_index) }]
    /\ UNCHANGED << dst, payload, Piece_Hashes, requested_pieces, piece_buffers, disk, peers,
                    active_peers, peer_state, conn, task, captured, wire, sending,
                    delivered, outstanding, commits, last_verify, sent_by_peers,
                    handshake_out >>

\* self.active_peers[peer_id] = peer_conn on an insertion-ordered dict
register(active, id, c) ==
    IF \E k \in 1..Len(active) : active[k].Peer_Id = id
    THEN [k \in 1..Len(active) |->
             IF active[k].Peer_Id = id THEN [Peer_Id |-> id, conn |-> c] ELSE active[k]]
    ELSE Append(active, [Peer_Id |-> id, conn |-> c])

\* a variant of the retry that sleeps the same retry_delay every time
failed_attempt_same_delay(kind, t) ==
    IF kind = "dialed" /\ t.attempt + 1 < max_retries
    THEN [pc |-> "none", attempt |-> t.attempt + 1, retry_delay |-> t.retry_delay,
          slept |-> Append(t.slept, t.retry_delay)]
    ELSE [pc |-> "failed", attempt |-> t.attempt + 1, slept |-> t.slept]

\* _connect_single_peer after an attempt that failed, t being the task's
\* state before it: Close, then asyncio.sleep(retry_delay) and the doubling
\* if another attempt is left, else the end of the coroutine; the handler
\* of an accepted connection makes one attempt
failed_attempt(kind, t) ==
    IF kind = "dialed" /\ t.attempt + 1 < max_retries
    THEN [pc |-> "none", attempt |-> t.attempt + 1, retry_delay |-> t.retry_delay * 2,
          slept |-> Append(t.slept, t.retry_delay)]
    ELSE [pc |-> "failed", attempt |-> t.attempt + 1, slept |-> t.slept]

\* perform_handshake, its first lines: the engine's own handshake is
\* written to the connection before Receive_Handshake is called, on a
\* dialed and on an accepted connection alike; every attempt of a dial
\* runs on a socket of its own (Connect after Close)
perform_handshake_send(S, c) ==
    [S EXCEPT !.handshake_out[c] = << create_handshake(Piece_Hashes) >>]

\* a variant of the connection set-up that enters the connection in
\* active_peers before it looks at the handshake response
connect_peer_registering_first(S, c, response) ==
    LET e == EngineOf(S, c)
        id == S.conn[c].Peer_Id
        S0 == [perform_handshake_send(S, c) EXCEPT !.active[e] = register(@, id, c)]
    IN  IF handshake_accepts(Piece_Hashes, response)
        THEN LET S1 == [S0 EXCEPT !.ps[c] = Peer_State,
                                  !.peers[e][id] = c,
                                  !.task[c] = [pc |-> "bitfield"]]
             IN  Send(S1, c, c, create_bitfield_message(S.have[e], total_pieces))
        ELSE [S0 EXCEPT !.task[c] = failed_attempt(S.conn[c].kind, S.task[c])]

\* _connect_single_peer (kind "dialed") and _handle_incoming_peer (kind
\* "inbound") from the moment Receive_Handshake returns response: the
\* rest of perform_handshake, the registration, the BITFIELD send.
connect_peer(S, c, response) ==
    LET e == EngineOf(S, c)
        id == S.conn[c].Peer_Id
        S0 == perform_handshake_send(S, c)
    IN  IF handshake_accepts(Piece_Hashes, response)
        THEN LET S1 == [S0 EXCEPT !.ps[c] = Peer_State,
                                  !.peers[e][id] = c,
                                  !.active[e] = register(@, id, c),
                                  !.task[c] = [pc |-> "bitfield"]]
             IN  Send(S1, c, c, create_bitfield_message(S.have[e], total_pieces))
        ELSE [S0 EXCEPT !.task[c] = failed_attempt(S.conn[c].kind, S.task[c])]

\* A connection of engine D to a remote peer comes up: c1 to peer "p", then
\* c2, dialed.  Two dialed connections have one Peer_Id when the peer list
\* names an address twice; the Peer_Id of an accepted connection is the
\* peername of a live socket, which no other connection has.
Connect(c, kind, id, response) ==
    /\ task[c].pc = "none"
    /\ c \in {"c1", "c2"} /\ id \in {"p", "q"}
    /\ c = "c1" => id = "p"
    /\ c = "c2" => /\ task["c1"].pc # "none"
                   /\ kind = "dialed"
                   /\ id = "p" => conn["c1"].kind = "dialed"
    /\ conn[c].kind # None => kind = conn[c].kind /\ id = conn[c].Peer_Id
    /\ Becomes(connect_peer(
          [Now EXCEPT !.conn[c] = [kind |-> kind, Peer_Id |-> id, engine |-> "D",
                                   far |-> None]], c, response))
    /\ UNCHANGED << dst, payload, Piece_Hashes, loaded, delivered, sent_by_peers >>

\* the two ends of the connection between D and S come up, once S listens
CanConnectE2E(c) ==
    /\ conn[c].kind # None
    /\ task[c].pc = "none"
    /\ loaded["S"]

ConnectE2E(c) ==
    /\ CanConnectE2E(c)
    /\ Becomes(connect_peer(Now, c, create_handshake(Piece_Hashes)))
    /\ UNCHANGED << dst, payload, Piece_Hashes, loaded, delivered, sent_by_peers >>

\* the coroutine of connection c runs on after the await of a send
CanResume(c) ==
    /\ task[c].pc \in {"bitfield", "interested", "round", "bcast", "sent"}
    /\ sending[c].to = None

Resume(c) ==
    /\ CanResume(c)
    /\ Becomes(CASE task[c].pc = "bitfield" -> StartHandler(Now, c)
                 [] task[c].pc = "interested" -> after_interested(Now, c)
                 [] task[c].pc = "round" -> continue_round(Now, c)
                 [] task[c].pc = "bcast" -> broadcast_have_message(Now, c)
                 [] task[c].pc = "sent" -> TaskDone(Now, c))
    /\ UNCHANGED << dst, payload, Piece_Hashes, loaded, delivered, sent_by_peers >>

\* an executor thread runs the Socket.sendall a task of t handed over;
\* sendall calls of several tasks on one socket run in any order
CanSendall(t) == sending[t].to # None

sendall(t) ==
    /\ CanSendall(t)
    /\ wire' = [wire EXCEPT ![sending[t].to] = Append(@, sending[t].msg)]
    /\ sending' = [sending EXCEPT ![t] = NoSend]
    /\ UNCHANGED << dst, payload, Piece_Hashes, have_pieces, requested_pieces, piece_buffers,
                    disk, loaded, peers, active_peers, peer_state, conn, task, captured,
                    delivered, outstanding, commits, last_verify, sent_by_peers,
                    handshake_out >>

\* handle_peer_messages: Receive_Message returned a frame a remote peer
\* sent, parse_message made (msg_id, payload) of it; fail_at is the file
\* whose write fails, if the frame leads to one
Received(c, m, fail_at, max_piece, max_other) ==
    /\ task[c].pc = "idle"
    /\ IF m.id = MSG_PIECE
       THEN /\ sent_by_peers.piece < max_piece
            /\ sent_by_peers' = [sent_by_peers EXCEPT !.piece = @ + 1]
       ELSE /\ sent_by_peers.other < max_other
            /\ sent_by_peers' = [sent_by_peers EXCEPT !.other = @ + 1]
    /\ Becomes(process_message(Now, c, m.id, m.payload, fail_at))
    /\ UNCHANGED << dst, payload, Piece_Hashes, loaded, delivered >>

Receive(c, m, fail_at) == Received(c, m, fail_at, MaxPieceMsgs, MaxOtherMsgs)

\* the same from a peer that seeds: fail_at = 0, the disk takes every write
ReceiveFromSeeder(c, m) == Received(c, m, 0, SeederPieceMsgs, SeederOtherMsgs)

\* handle_peer_messages: Receive_Message returned nothing (the peer closed)
Disconnect(c) ==
    /\ task[c].pc = "idle"
    /\ sent_by_peers.closes < MaxCloses
    /\ sent_by_peers' = [sent_by_peers EXCEPT !.closes = @ + 1]
    /\ Becomes(HandlerExit(Now, c))
    /\ UNCHANGED << dst, payload, Piece_Hashes, loaded, delivered >>

\* handle_peer_messages of c takes the next message the far end wrote:
\* the far end's Send_Message, this end's Receive_Message and parse_message
CanDeliver(c) ==
    /\ task[c].pc = "idle"
    /\ delivered[c] < Len(wire[conn[c].far])

Deliver(c) ==
    /\ CanDeliver(c)
    /\ delivered' = [delivered EXCEPT ![c] = @ + 1]
    /\ LET m == wire[conn[c].far][delivered[c] + 1]
           data == Receive_Message(conn[c].kind,
                       Send_Message(conn[conn[c].far].kind, create_message(m)))
           msg == parse_message(data.data)
       IN  Becomes(IF ~data.ok \/ data.data = <<>> THEN HandlerExit(Now, c)
                   ELSE IF ~msg.ok THEN Now
                   ELSE process_message(Now, c, msg.id, msg.payload, 0))
    /\ UNCHANGED << dst, payload, Piece_Hashes, loaded, sent_by_peers >>

Next ==
    \/ load_existing_pieces("D")
    \/ \E c \in Conn, kind \in {"dialed", "inbound"}, id \in PeerIds, r \in Handshakes :
          Connect(c, kind, id, r)
    \/ \E c \in Conn : Resume(c)
    \/ \E c \in Conn : sendall(c)
    \/ \E c \in Conn, m \in PieceMessages \cup OtherMessages, fail_at \in FailAt :
          Receive(c, m, fail_at)
    \/ \E c \in Conn : Disconnect(c)

Spec == Init /\ [][Next]_vars

NextSeeders ==
    \/ \E c \in Conn, kind \in {"dialed", "inbound"}, id \in PeerIds :
          Connect(c, kind, id, create_handshake(Piece_Hashes))
    \/ \E c \in Conn : Resume(c)
    \/ \E c \in Conn : sendall(c)
    \/ \E c \in Conn, m \in SeederMessages : ReceiveFromSeeder(c, m)

SpecSeeders == InitSeeders /\ [][NextSeeders]_vars

\* _handle_incoming_peer: the seeding server, started after
\* load_existing_pieces, accepts a connection; its Peer_Id is its peername
Accept(c) ==
    /\ task[c].pc = "none"
    /\ c \in {"c1", "c2"}
    /\ loaded["D"]
    /\ Becomes(connect_peer(
          [Now EXCEPT !.conn[c] = [kind |-> "inbound",
                                   Peer_Id |-> IF c = "c1" THEN "p" ELSE "q",
                                   engine |-> "D", far |-> None]],
          c, create_handshake(Piece_Hashes)))
    /\ UNCHANGED << dst, payload, Piece_Hashes, loaded, delivered, sent_by_peers >>

\* handle_peer_messages takes a frame of a downloading peer
ReceiveFromLeecher(c, m) == Received(c, m, 0, 0, LeecherMsgs)

NextServing ==
    \/ load_existing_pieces("D")
    \/ \E c \in Conn : Accept(c)
    \/ \E c \in Conn : Resume(c)
    \/ \E c \in Conn, m \in LeecherMessages : ReceiveFromLeecher(c, m)
    \/ \E c \in Conn : Disconnect(c)

SpecServing == InitServing /\ [][NextServing]_vars

\* _connect_single_peer: engine D dials the peer of a list of three
\* distinct addresses and the handshake succeeds
DialFaulty(c) ==
    /\ task[c].pc = "none"
    /\ Becomes(connect_peer(
          [Now EXCEPT !.conn[c] =
              [kind |-> "dialed",
               Peer_Id |-> CASE c = "c1" -> "p" [] c = "c2" -> "q" [] OTHER -> "r",
               engine |-> "D", far |-> None]],
          c, create_handshake(Piece_Hashes)))
    /\ UNCHANGED << dst, payload, Piece_Hashes, loaded, delivered, sent_by_peers >>

\* handle_peer_messages takes a frame of a misbehaving peer; the scenario
\* notes the peers that sent a corrupt piece and the connections that
\* carried a BITFIELD with spare bits set
ReceiveFromFaulty(c, m) ==
    /\ task[c].pc = "idle"
    /\ IF m.id = MSG_PIECE
       THEN /\ sent_by_peers.piece < FaultyPieceMsgs
            /\ sent_by_peers' = [sent_by_peers EXCEPT
                                    !.piece = @ + 1,
                                    !.corrupt = @ \cup {conn[c].Peer_Id}]
       ELSE /\ sent_by_peers.other < FaultyOtherMsgs
            /\ sent_by_peers' = [sent_by_peers EXCEPT
                                    !.other = @ + 1,
                                    !.spare = IF /\ m.id = MSG_BITFIELD
                                                /\ SpareBits(m.payload, total_pieces) # {}
                                             THEN @ \cup {c} ELSE @]
    /\ Becomes(process_message(Now, c, m.id, m.payload, 0))
    /\ UNCHANGED << dst, payload, Piece_Hashes, loaded, delivered >>

NextFaulty ==
    \/ \E c \in Conn : DialFaulty(c)
    \/ \E c \in Conn : Resume(c)
    \/ \E c \in Conn : sendall(c)
    \/ \E c \in Conn, m \in FaultyMessages : ReceiveFromFaulty(c, m)

SpecFaulty == InitSeeders /\ [][NextFaulty]_vars

NextE2E ==
    \/ load_existing_pieces("S")
    \/ \E c \in Conn : ConnectE2E(c)
    \/ \E c \in Conn : Resume(c)
    \/ \E c \in Conn : sendall(c)
    \/ \E c \in Conn : Deliver(c)

SpecE2E == InitE2E /\ [][NextE2E]_vars

\* no step of NextE2E can be taken: no task is ready, no sendall is
\* pending, every message written has been received
StoppedE2E ==
    /\ ~CanLoad("S")
    /\ \A c \in Conn : ~CanConnectE2E(c) /\ ~CanResume(c) /\ ~CanSendall(c) /\ ~CanDeliver(c)

(***************************************************************************)
(* Properties                                                              *)
(***************************************************************************)
\* the files of engine e that have content hold the published bytes
DiskMatches(e) ==
    \A k \in 1..Len(Files) :
        Files[k].Length > 0 => disk[e][k] = DiskOf(payload)[k]

\* frames with msg_id id handed to Send_Message of connection c, given the
\* wires w and the pending sendalls s
SentCount(w, s, c, id) ==
    Cardinality({ k \in 1..Len(w[c]) : w[c][k].id = id })
    + Cardinality({ t \in Conn : s[t].to = c /\ s[t].msg.id = id })

\* piece indexes of the HAVE frames handed to Send_Message of connection c
HavesSent(c) ==
    { parse_have_message(wire[c][k].payload).piece_index :
        k \in { j \in 1..Len(wire[c]) : wire[c][j].id = MSG_HAVE } }
    \cup { parse_have_message(sending[t].msg.payload).piece_index :
             t \in { u \in Conn : sending[u].to = c /\ sending[u].msg.id = MSG_HAVE } }

\* C1: with a seeder S that holds every piece and a downloader D that holds
\* none, both this engine, D in the end holds every piece and its files
\* equal the published ones byte for byte: when the two engines have
\* nothing left to do, D is complete.
C1_DownloadCompletes ==
    StoppedE2E => (have_pieces["D"] = AllPieces /\ DiskMatches("D"))

\* C2: the download-path verifier accepts an assembled piece exactly when
\* the creator's digest (SHA-256, also the startup verifier's) of the
\* assembled bytes equals the descriptor's digest of that piece.
C2_SameDigest ==
    last_verify.piece_index # -1 =>
        (last_verify.accepted <=>
            sha256_digest(last_verify.piece_data)
                = fromhex(Piece_Hashes[last_verify.piece_index + 1]))

\* C3: in every reachable state a piece index is in have_pieces if and only
\* if the piece's byte range on disk has the descriptor's digest.
C3_OwnershipAgreement ==
    \A i \in AllPieces :
        i \in have_pieces["D"] <=> verify_piece_from_files(disk["D"], Piece_Hashes, i)

\* C4: no piece is committed (written, added to have_pieces, announced)
\* more than once, whatever PIECE frames the peers send.
C4_NoDoubleCommit ==
    \A i \in AllPieces : commits["D"][i] <= 1

\* C5: every HAVE(i) handed to a connection is for a piece that has been
\* committed: it is in have_pieces and its byte range on disk holds the
\* published bytes, every file write done; none after a failed
\* verification or a failed write.
C5_CausalHave ==
    \A c \in Conn : \A i \in HavesSent(c) :
        /\ i \in have_pieces["D"]
        /\ commits["D"][i] >= 1
        /\ ReadPieceFrom(disk["D"], i, 1) = TruePiece(payload, i)

\* C5's case: a HAVE has gone out on the wire of a connection
C5_HaveOnWire ==
    \E c \in Conn : \E k \in 1..Len(wire[c]) : wire[c][k].id = MSG_HAVE

\* C6: on every session the REQUESTs sent and not yet answered by a
\* matching PIECE are at most K.
C6_BoundedInFlight ==
    \A c \in Conn : Cardinality(outstanding[c]) <= K

\* C7: the piece store (buffers and files) changes only in a step that
\* takes a PIECE answering an outstanding REQUEST of the same session with
\* the same index, offset and length.
C7_RequestLegitimacy ==
    [][ (piece_buffers' # piece_buffers \/ disk' # disk) =>
            \E c \in Conn : outstanding[c] \ outstanding'[c] # {} ]_vars

\* C8: once have_pieces holds every piece index, no REQUEST and no
\* INTERESTED is handed to any connection.
C8_SeederQuiescence ==
    [][ have_pieces["D"] = AllPieces =>
            \A c \in Conn : \A id \in {MSG_REQUEST, MSG_INTERESTED} :
                SentCount(wire', sending', c, id) <= SentCount(wire, sending, c, id) ]_vars

\* C9: whenever a REQUEST is handed to a connection, the peer_choked flag
\* of the Peer_State the request round works on is false: the last of
\* CHOKE and UNCHOKE processed from that peer was UNCHOKE.
C9_RequestOnlyUnchoked ==
    [][ \A c \in Conn :
            SentCount(wire', sending', c, MSG_REQUEST) > SentCount(wire, sending, c, MSG_REQUEST)
                => ~peer_state'[task'[c].ref].peer_choked ]_vars

\* C10: the first framed message on the wire of every connection is the
\* engine's BITFIELD.
C10_BitfieldFirst ==
    \A c \in Conn : wire[c] # << >> => wire[c][1].id = MSG_BITFIELD

\* pieces of the torrent the peer of connection c has advertised and the
\* engine lacks
Wanted(c) ==
    (peer_state[captured[c]].downloaded_pieces \cap AllPieces) \ have_pieces[conn[c].engine]

\* no coroutine stands between two steps of a handler
AllTasksAtRest == \A c \in Conn : task[c].pc \in {"none", "failed", "idle", "ended"}

\* C11: when the handler of a session has processed a BITFIELD or a HAVE
\* that shows a piece the engine lacks, the session's interested flag is
\* true and an INTERESTED has been handed to the session.
C11_InterestOnDiscovery ==
    AllTasksAtRest =>
        \A c \in Conn :
            (task[c].pc = "idle" /\ Wanted(c) # {}) =>
                /\ peer_state[captured[c]].interested
                /\ SentCount(wire, sending, c, MSG_INTERESTED) >= 1

\* C12: when the handler of a session has processed an INTERESTED (and no
\* NOT_INTERESTED since), the engine has unchoked the peer: its choked
\* flag for the session is false and an UNCHOKE has been handed to the
\* session.
C12_UnchokeInterested ==
    \A c \in Conn :
        (task[c].pc = "idle" /\ peer_state[captured[c]].peer_interested) =>
            /\ ~peer_state[captured[c]].choked
            /\ SentCount(wire, sending, c, MSG_UNCHOKE) >= 1

\* C13: a PIECE frame is handed only to a session the engine has unchoked:
\* its choked flag is false and an UNCHOKE went out on it before.
C13_ServeOnlyUnchoked ==
    \A c \in Conn :
        SentCount(wire, sending, c, MSG_PIECE) >= 1 =>
            /\ ~peer_state[captured[c]].choked
            /\ SentCount(wire, sending, c, MSG_UNCHOKE) >= 1

\* C14: a step leaves the store of every piece that is in have_pieces as it
\* was: the piece stays in have_pieces, it has no buffer before and none
\* after (a block deposited for it is discarded), and its byte range on
\* disk is unchanged.
C14_DepositIdempotent ==
    [][ \A i \in have_pieces["D"] :
            /\ i \in have_pieces'["D"]
            /\ i \notin DOMAIN piece_buffers["D"]
            /\ i \notin DOMAIN piece_buffers'["D"]
            /\ ReadPieceFrom(disk'["D"], i, 1) = ReadPieceFrom(disk["D"], i, 1) ]_vars

\* C15: a step in which _verify_piece_hash rejects a completed buffer leaves
\* the piece without buffer, outside have_pieces and outside
\* requested_pieces, hands no HAVE to any session and writes nothing to
\* the files.
C15_BadPieceDropped ==
    [][ (last_verify' # last_verify /\ ~last_verify'.accepted) =>
            /\ last_verify'.piece_index \notin DOMAIN piece_buffers'["D"]
            /\ last_verify'.piece_index \notin have_pieces'["D"]
            /\ last_verify'.piece_index \notin requested_pieces'["D"]
            /\ \A c \in Conn : SentCount(wire', sending', c, MSG_HAVE)
                                 = SentCount(wire, sending, c, MSG_HAVE)
            /\ disk' = disk ]_vars

\* C16: once three distinct peers have each supplied the whole of a piece
\* with bytes _verify_piece_hash rejected, the engine has raised the fatal
\* error: no session's handler is left waiting for the next frame.
C16_IrrecoverablePiece ==
    Cardinality(sent_by_peers.corrupt) >= 3 =>
        /\ last_verify.piece_index = total_pieces - 1 /\ ~last_verify.accepted
        /\ \A c \in Conn : task[c].pc # "idle"

\* connections whose handler is in its receive loop and that have a REQUEST
\* for a block of piece i sent and not answered
Awaiting(i) ==
    { c \in Conn : /\ task[c].pc = "idle"
                   /\ \E r \in outstanding[c] : parse_request_message(r).piece_index = i }

\* C17: a piece whose requests no live session is waiting for (the
\* session that sent them has ended) is assignable again: when no
\* coroutine is in the middle of a handler and no send is pending, every
\* piece in requested_pieces has an unanswered REQUEST on a session whose
\* handler still runs.
C17_RequestReassigned ==
    (AllTasksAtRest /\ \A c \in Conn : sending[c].to = None) =>
        \A i \in requested_pieces["D"] : Awaiting(i) # {}

\* C18: once the handler of a session has ended, active_peers holds no
\* entry for its connection (so connect_to_peers does not skip the peer's
\* address as already connected) and no further HAVE is handed to it.
C18_ClosedSessionForgotten ==
    [][ \A c \in Conn :
            task'[c].pc = "ended" =>
                /\ \A k \in 1..Len(active_peers'["D"]) : active_peers'["D"][k].conn # c
                /\ task[c].pc = "ended" =>
                       SentCount(wire', sending', c, MSG_HAVE)
                           = SentCount(wire, sending, c, MSG_HAVE) ]_vars

\* C19: a PIECE frame whose index is not a piece of the torrent, or whose
\* block runs past the end of its piece, leaves the piece store as it was:
\* piece_buffers never holds a block outside the piece ranges of the
\* torrent.
C19_PieceOutOfRange ==
    \A i \in DOMAIN piece_buffers["D"] :
        /\ i \in AllPieces
        /\ \A o \in DOMAIN piece_buffers["D"][i] :
               o + Len(piece_buffers["D"][i][o]) <= piece_length(i)

\* C20: a session on which a BITFIELD with a bit set at a position >= n
\* arrived is closed, and the pieces the peer is taken to own are not the
\* ones of that message (in this scenario no other frame advertises, so
\* they are none).
C20_SpareBitsRejected ==
    \A c \in sent_by_peers.spare :
        /\ task[c].pc = "ended"
        /\ peer_state[captured[c]].downloaded_pieces = {}

\* a handshake of connection c has just failed: the attempt is counted or
\* the connection given up
HandshakeFailed(c) ==
    /\ task[c].pc = "none"
    /\ \/ task'[c].pc = "failed"
       \/ task'[c].pc = "none" /\ task'[c].attempt > task[c].attempt

\* C21: a step in which a handshake fails creates no Peer_State, registers
\* nothing, sends nothing and leaves have_pieces and piece_buffers alone;
\* and as long as no handshake of a connection has succeeded, the
\* connection is in neither dict and no framed message is handed to it.
C21_FailedHandshakeInert ==
    [][ \A c \in Conn :
            /\ HandshakeFailed(c) =>
                   /\ peers' = peers /\ active_peers' = active_peers
                   /\ peer_state' = peer_state
                   /\ wire' = wire /\ sending' = sending
                   /\ have_pieces' = have_pieces /\ piece_buffers' = piece_buffers
            /\ task'[c].pc \in {"none", "failed"} =>
                   /\ wire'[c] = << >>
                   /\ \A t \in Conn : sending'[t].to # c
                   /\ \A k \in 1..Len(active_peers'["D"]) : active_peers'["D"][k].conn # c
                   /\ \A id \in PeerIds : peers'["D"][id] # c ]_vars

\* C21's case: a dialed connection was given up after its last failed
\* handshake while another session is up
C21_HandshakeGaveUp ==
    \E c, d \in Conn :
        /\ task[c].pc = "failed" /\ conn[c].kind = "dialed"
        /\ task[d].pc = "idle"

\* C22: on an accepted connection nothing is written before the remote
\* handshake has been read and matched: a connection the listener closed
\* for a handshake that did not match has had no byte written to it,
\* neither a handshake nor a framed message.
C22_ListenerSilentUntilMatch ==
    \A c \in Conn :
        (conn[c].kind = "inbound" /\ task[c].pc = "failed") =>
            handshake_out[c] = << >> /\ wire[c] = << >>

\* C23: for every message the engine has written to a connection, the
\* bytes on the wire are one 4-byte big-endian length L followed by L
\* bytes that begin with the type id, and the far end's Receive_Message
\* and parse_message give back the same type id and payload.
C23_FramingRoundTrip ==
    \A c \in Conn : \A k \in 1..Len(wire[c]) :
        LET m == wire[c][k]
            bytes == Send_Message(conn[c].kind, create_message(m))
            data == Receive_Message(conn[conn[c].far].kind, bytes)
            msg == parse_message(data.data)
        IN  /\ Unpack32(Slice(bytes, 0, 4)) = Len(bytes) - 4
            /\ bytes[5] = m.id
            /\ data.ok /\ msg.ok
            /\ msg.id = m.id /\ msg.payload = m.payload

\* the REQUESTs the claim calls legal for piece i: length at most
\* BLOCK_SIZE, inside the piece
LegalRequests(i) ==
    { r \in (0..(Piece_Size - 1)) \X (1..BLOCK_SIZE) : r[1] + r[2] <= piece_length(i) }

\* C24: whenever a session's handler waits for the next frame, a legal
\* REQUEST for a held piece is answered on that session with one PIECE
\* frame whose block is the published bytes of the requested global range.
C24_LegalRequestServed ==
    \A c \in Conn :
        (task[c].pc = "idle" /\ conn[c].kind = "inbound") =>
            \A i \in have_pieces["D"] : \A r \in LegalRequests(i) :
                process_message(Now, c, MSG_REQUEST,
                                create_request_message(i, r[1], r[2]).payload, 0).wire[c]
                    = Append(wire[c],
                             piece_message(i, r[1],
                                 Slice(payload, i * Piece_Size + r[1],
                                       i * Piece_Size + r[1] + r[2])))

\* C25: a step that commits piece i leaves every file that does not
\* intersect the piece's global range as it was, and in every file that
\* does puts the intersecting bytes of the piece at their within-file
\* offset and keeps every other byte the file had (a gap before the
\* written range, in a file that was shorter, reads as zeros).
C25_CommitWritesOverlap ==
    [][ \A i \in AllPieces :
            commits'["D"][i] > commits["D"][i] =>
                \A k \in 1..Len(Files) :
                    LET old == disk["D"][k]
                        new == disk'["D"][k]
                        lo == Max(i * Piece_Size, FileStart(k))
                        hi == Min(i * Piece_Size + piece_length(i),
                                  FileStart(k) + Files[k].Length)
                    IN  IF lo < hi
                        THEN /\ new.exists
                             /\ Len(new.data) = Max(Len(old.data), hi - FileStart(k))
                             /\ \A j \in 0..(Len(new.data) - 1) :
                                    new.data[j + 1] =
                                        IF FileStart(k) + j >= lo /\ FileStart(k) + j < hi
                                        THEN TruePiece(payload, i)[FileStart(k) + j
                                                                   - i * Piece_Size + 1]
                                        ELSE IF j < Len(old.data) THEN old.data[j + 1]
                                        ELSE 0
                        ELSE new = old ]_vars

\* C25's case: two pieces that share a file have both been committed
C25_TwoPiecesInOneFile ==
    /\ commits["D"][0] >= 1 /\ commits["D"][total_pieces - 1] >= 1
    /\ Len(disk["D"][Len(Files)].data) = Files[Len(Files)].Length

\* C26: in a download directory that started empty, the pieces that
\* load_existing_pieces of a fresh engine would mark Have (those whose
\* bytes read back from the files pass _verify_piece_from_files) are
\* exactly the pieces that have been committed to it.
C26_RecomputedBitfield ==
    { piece_index \in AllPieces :
        verify_piece_from_files(disk["D"], Piece_Hashes, piece_index) }
    = { piece_index \in AllPieces : commits["D"][piece_index] >= 1 }

\* C27: the downloading engine never issues, on a connection it dialed,
\* a REQUEST for a piece whose bytes in its download directory pass the
\* verification of load_existing_pieces.
C27_NoRequestForPiecesOnDisk ==
    [][ \A c \in Conn :
            conn'[c].kind = "dialed" /\ conn'[c].engine = "D" =>
                \A r \in outstanding'[c] \ outstanding[c] :
                    ~ verify_piece_from_files(disk["D"], Piece_Hashes,
                                              parse_request_message(r).piece_index) ]_vars

\* C28: once every piece has been committed, every file of the
\* descriptor exists in the download directory with its declared
\* length, the files of length zero included.
C28_AllFilesMaterialised ==
    (\A piece_index \in AllPieces : commits["D"][piece_index] >= 1) =>
        \A k \in 1..Len(Files) :
            /\ disk["D"][k].exists
            /\ Len(disk["D"][k].data) = Files[k].Length

(***************************************************************************)
(* The descriptor file (Torrent_Metadata, DST_File_Handler).  A descriptor *)
(* object is a record of its attributes; None is the string "none".  The   *)
(* JSON text of json.dumps is a record of tagged values, [json |-> "null"] *)
(* or [json |-> kind, v |-> value]; hex() wraps and fromhex unwraps.       *)
(***************************************************************************)
Min_Piece_Size == 4
Max_Piece_Size == 8
MaxClock == 2

\* an RSA_Handler: none given to DST_File_Handler, or the issuer's key pair
Handlers ==
    { [RSA |-> FALSE, Private_Key |-> None, Public_Key |-> None],
      [RSA |-> TRUE, Private_Key |-> "issuer", Public_Key |-> "issuer"] }

\* _Calculate_Info_Hash: SHA-256 of json.dumps(Info_Dict, sort_keys=True)
Calculate_Info_Hash(a) ==
    SHA256(<< "Files", a.Files, "Name", a.Name, "Piece_Hashes", a.Piece_Hashes,
              "Piece_Size", a.Piece_Size >>)

\* Torrent_Metadata.__init__ with arguments a, run when the clock reads utcnow
Torrent_Metadata(a, utcnow) ==
    [Name |-> a.Name,
     Files |-> a.Files,
     Piece_Size |-> a.Piece_Size,
     Piece_Hashes |-> a.Piece_Hashes,
     Tracker_URLs |-> a.Tracker_URLs,
     Comment |-> a.Comment,
     Created_By |-> IF a.Created_By = None \/ a.Created_By = ""
                    THEN "DST Torrent System v1.0" ELSE a.Created_By,
     Private |-> a.Private,
     Creation_Date |-> utcnow,
     Info_Hash |-> Calculate_Info_Hash(a)]

\* Torrent_Metadata.To_Dict, with File_Info.To_Dict for each file
To_Dict(M) ==
    [Name |-> M.Name,
     Files |-> [k \in DOMAIN M.Files |->
                  [Path |-> M.Files[k].Path, Length |-> M.Files[k].Length,
                   Hash |-> M.Files[k].Hash]],
     Piece_Size |-> M.Piece_Size,
     Piece_Hashes |-> M.Piece_Hashes,
     Tracker_URLs |-> M.Tracker_URLs,
     Comment |-> M.Comment,
     Created_By |-> M.Created_By,
     Private |-> M.Private,
     Creation_Date |-> M.Creation_Date,
     Info_Hash |-> M.Info_Hash,
     DST_Version |-> "1.0"]

\* json.dumps of a str that may be None, and json.loads of it
json_optional(v) == IF v = None THEN [json |-> "null"] ELSE [json |-> "string", v |-> v]
json_value(t) == IF t.json = "null" THEN None ELSE t.v

\* json.dumps(Metadata_Dict, indent=2)
json_dumps(d) ==
    [Name |-> [json |-> "string", v |-> d.Name],
     Files |-> [k \in DOMAIN d.Files |->
                  [Path |-> [json |-> "string", v |-> d.Files[k].Path],
                   Length |-> [json |-> "number", v |-> d.Files[k].Length],
                   Hash |-> json_optional(d.Files[k].Hash)]],
     Piece_Size |-> [json |-> "number", v |-> d.Piece_Size],
     Piece_Hashes |-> [k \in DOMAIN d.Piece_Hashes |->
                         [json |-> "string", v |-> d.Piece_Hashes[k]]],
     Tracker_URLs |-> [k \in DOMAIN d.Tracker_URLs |->
                         [json |-> "string", v |-> d.Tracker_URLs[k]]],
     Comment |-> json_optional(d.Comment),
     Created_By |-> json_optional(d.Created_By),
     Private |-> [json |-> IF d.Private THEN "true" ELSE "false"],
     Creation_Date |-> [json |-> "number", v |-> d.Creation_Date],
     Info_Hash |-> [json |-> "string", v |-> d.Info_Hash],
     DST_Version |-> [json |-> "string", v |-> d.DST_Version]]

\* json.loads(Metadata_Json)
json_loads(t) ==
    [Name |-> json_value(t.Name),
     Files |-> [k \in DOMAIN t.Files |->
                  [Path |-> json_value(t.Files[k].Path),
                   Length |-> json_value(t.Files[k].Length),
                   Hash |-> json_value(t.Files[k].Hash)]],
     Piece_Size |-> json_value(t.Piece_Size),
     Piece_Hashes |-> [k \in DOMAIN t.Piece_Hashes |-> json_value(t.Piece_Hashes[k])],
     Tracker_URLs |-> [k \in DOMAIN t.Tracker_URLs |-> json_value(t.Tracker_URLs[k])],
     Comment |-> json_value(t.Comment),
     Created_By |-> json_value(t.Created_By),
     Private |-> (t.Private.json = "true"),
     Creation_Date |-> json_value(t.Creation_Date),
     Info_Hash |-> json_value(t.Info_Hash),
     DST_Version |-> json_value(t.DST_Version)]

\* a variant of From_Dict that leaves the Creation_Date of the constructor
From_Dict_dated_now(Data, utcnow) ==
    Torrent_Metadata(
        [Name |-> Data.Name,
         Files |-> [k \in DOMAIN Data.Files |->
                      [Path |-> Data.Files[k].Path, Length |-> Data.Files[k].Length,
                       Hash |-> Data.Files[k].Hash]],
         Piece_Size |-> Data.Piece_Size,
         Piece_Hashes |-> Data.Piece_Hashes,
         Tracker_URLs |-> Data.Tracker_URLs,
         Comment |-> Data.Comment,
         Created_By |-> Data.Created_By,
         Private |-> Data.Private], utcnow)

\* Torrent_Metadata.From_Dict, with File_Info.From_Dict for each file; the
\* dictionaries read here have every key, so no .get default applies
From_Dict(Data, utcnow) ==
    LET Metadata == Torrent_Metadata(
                        [Name |-> Data.Name,
                         Files |-> [k \in DOMAIN Data.Files |->
                                      [Path |-> Data.Files[k].Path,
                                       Length |-> Data.Files[k].Length,
                                       Hash |-> Data.Files[k].Hash]],
                         Piece_Size |-> Data.Piece_Size,
                         Piece_Hashes |-> Data.Piece_Hashes,
                         Tracker_URLs |-> Data.Tracker_URLs,
                         Comment |-> Data.Comment,
                         Created_By |-> Data.Created_By,
                         Private |-> Data.Private], utcnow)
    IN  [Metadata EXCEPT !.Creation_Date = Data.Creation_Date]

\* Hybrid_Encryption.Encrypt: the session key under RSA-OAEP to the public
\* key, the plaintext under AES-GCM with the session key and the nonce
Hybrid_Encrypt(h, Plaintext, Session_Key, Nonce) ==
    [Encrypted_Session_Key |-> [to |-> h.Public_Key, of |-> Session_Key],
     Nonce |-> Nonce,
     Ciphertext |-> [key |-> Session_Key, nonce |-> Nonce, of |-> Plaintext]]

\* Hybrid_Encryption.Decrypt: raises unless the private key opens the
\* session key and the session key and nonce authenticate the ciphertext
Hybrid_Decrypt(h, Encrypted_Package) ==
    LET esk == Encrypted_Package.Encrypted_Session_Key
        ct == Encrypted_Package.Ciphertext
    IN  IF /\ h.Private_Key # None
           /\ esk.to = h.Private_Key
           /\ ct.key = esk.of
           /\ ct.nonce = Encrypted_Package.Nonce
        THEN [ok |-> TRUE, Plaintext |-> ct.of]
        ELSE [ok |-> FALSE, error |-> "ValueError"]

\* DST_File_Handler.Save_Torrent: the DST_File it writes with json.dump
Save_Torrent(h, Metadata, Encrypt, Session_Key, Nonce) ==
    LET Metadata_Json == json_dumps(To_Dict(Metadata))
        Metadata_Bytes == [utf8 |-> Metadata_Json]
        Signature == IF h.RSA /\ h.Private_Key # None
                     THEN [json |-> "string",
                           v |-> hexdigest([signed |-> Metadata_Bytes,
                                            by |-> h.Private_Key])]
                     ELSE [json |-> "null"]
        Encrypted_Package == Hybrid_Encrypt(h, Metadata_Bytes, Session_Key, Nonce)
    IN  [DST_Magic |-> "DST_TORRENT_V1",
         Container |->
             IF Encrypt /\ h.RSA
             THEN [Encrypted |-> TRUE,
                   Data |-> [Encrypted_Session_Key |->
                                 hexdigest(Encrypted_Package.Encrypted_Session_Key),
                             Nonce |-> hexdigest(Encrypted_Package.Nonce),
                             Ciphertext |-> hexdigest(Encrypted_Package.Ciphertext)],
                   Signature |-> Signature]
             ELSE [Encrypted |-> FALSE, Data |-> Metadata_Json,
                   Signature |-> Signature]]

\* DST_File_Handler.Load_Torrent run when the clock reads utcnow: the
\* descriptor object it returns, or the exception it raises; a signature
\* that does not verify is logged and loading goes on
Load_Torrent(h, DST_File, utcnow) ==
    IF DST_File.DST_Magic # "DST_TORRENT_V1"
    THEN [ok |-> FALSE, error |-> "ValueError"]
    ELSE LET Container == DST_File.Container
             Is_Encrypted == Container.Encrypted
         IN  IF Is_Encrypted /\ ~ h.RSA
             THEN [ok |-> FALSE, error |-> "ValueError"]
             ELSE LET dec == IF Is_Encrypted
                             THEN Hybrid_Decrypt(h,
                                      [Encrypted_Session_Key |->
                                           fromhex(Container.Data.Encrypted_Session_Key),
                                       Nonce |-> fromhex(Container.Data.Nonce),
                                       Ciphertext |-> fromhex(Container.Data.Ciphertext)])
                             ELSE [ok |-> TRUE, Plaintext |-> [utf8 |-> Container.Data]]
                  IN  IF ~ dec.ok THEN dec
                      ELSE [ok |-> TRUE,
                            Metadata |-> From_Dict(json_loads(dec.Plaintext.utf8),
                                                   utcnow)]

\* constructor arguments: those Create_Torrent passes for payload X, and
\* ones with another piece length, digest list or digest width
DescriptorArgs(X) ==
    [Name : {"torrent"},
     Files : { [k \in 1..Len(Files) |->
                  [Path |-> Files[k].Path, Length |-> Files[k].Length, Hash |-> h]] :
               h \in {None, "filehash"} },
     Piece_Size : {Min_Piece_Size - 1, Piece_Size, Max_Piece_Size, Max_Piece_Size + 1},
     Piece_Hashes : {Create_Torrent(X), Sha1_Piece_Hashes(X),
                     SubSeq(Create_Torrent(X), 1, 1), << >>},
     Tracker_URLs : {<< >>, << "http://tracker" >>},
     Comment : {None, "", "comment"},
     Created_By : {None, "me"},
     Private : BOOLEAN]

\* the constraints the descriptor format puts on a descriptor
WellFormed(M) ==
    /\ M.Piece_Size >= Min_Piece_Size /\ M.Piece_Size <= Max_Piece_Size
    /\ Len(M.Piece_Hashes) = (SumLen(M.Files) + M.Piece_Size - 1) \div M.Piece_Size
    /\ \A k \in DOMAIN M.Piece_Hashes : fromhex(M.Piece_Hashes[k]).width = 32

\* a descriptor object has been constructed at clock 1 and nothing saved
InitDescriptor ==
    /\ payload \in Payloads
    /\ Piece_Hashes = Create_Torrent(payload)
    /\ disk = [e \in Eng |-> EmptyDisk]
    /\ conn = [c \in Conn |-> NoConn]
    /\ InitEngines
    /\ \E a \in DescriptorArgs(payload), h \in Handlers :
          dst = [pc |-> "made", handler |-> h, Metadata |-> Torrent_Metadata(a, 1),
                 File |-> [DST_Magic |-> ""], utcnow |-> 1,
                 Loaded |-> [ok |-> FALSE, error |-> ""]]

EngineVars ==
    << payload, Piece_Hashes, have_pieces, requested_pieces, piece_buffers, disk,
       loaded, peers, active_peers, peer_state, conn, task, captured, wire, sending,
       delivered, outstanding, commits, last_verify, sent_by_peers, handshake_out >>

\* Save_Torrent writes the .dst file of the descriptor object
Save(Encrypt, Session_Key, Nonce) ==
    /\ dst.pc = "made"
    /\ dst' = [dst EXCEPT !.pc = "saved",
                          !.File = Save_Torrent(dst.handler, dst.Metadata, Encrypt,
                                                Session_Key, Nonce)]
    /\ UNCHANGED EngineVars

\* Load_Torrent reads the .dst file, at the same second or later
Load(utcnow) ==
    /\ dst.pc = "saved"
    /\ dst' = [dst EXCEPT !.pc = "loaded", !.utcnow = utcnow,
                          !.Loaded = Load_Torrent(dst.handler, dst.File, utcnow)]
    /\ UNCHANGED EngineVars

NextDescriptor ==
    \/ \E Encrypt \in BOOLEAN, Session_Key \in {"k1", "k2"}, Nonce \in {"n1", "n2"} :
          Save(Encrypt, Session_Key, Nonce)
    \/ \E utcnow \in 1..MaxClock : Load(utcnow)

SpecDescriptor == InitDescriptor /\ [][NextDescriptor]_vars

\* C29: loading the file Save_Torrent wrote for a well-formed descriptor
\* object, plaintext or encrypted, returns a descriptor object equal to it
\* in every attribute.
C29_LoadSaveRoundTrip ==
    dst.pc = "loaded" /\ WellFormed(dst.Metadata) =>
        /\ dst.Loaded.ok
        /\ dst.Loaded.Metadata = dst.Metadata

\* C29's case: an encrypted container of a well-formed descriptor has
\* been loaded at a later second than the descriptor was created
C29_EncryptedLoadedLater ==
    /\ dst.pc = "loaded" /\ WellFormed(dst.Metadata)
    /\ dst.File.Container.Encrypted
    /\ dst.utcnow > dst.Metadata.Creation_Date
    /\ dst.Metadata.Comment = None /\ dst.Metadata.Tracker_URLs # << >>

\* C30: Load_Torrent returns no descriptor object for a file that holds
\* a descriptor with a piece count other than the ceiling of total length
\* over piece length, a piece length outside [Min_Piece_Size,
\* Max_Piece_Size], or a piece digest of another width.
C30_MalformedRejected ==
    dst.pc = "loaded" /\ ~ WellFormed(dst.Metadata) =>
        ~ dst.Loaded.ok

\* RSA_Handler.Verify: False without a public key (the ValueError is caught)
\* and when the signature is not the key's signature over Data
RSA_Verify(h, Data, Signature) ==
    /\ h.Public_Key # None
    /\ Signature.by = h.Public_Key
    /\ Signature.signed = Data

\* someone else replaces the signature of the saved .dst file by one made
\* with another key
Tamper ==
    /\ dst.pc = "saved"
    /\ dst' = [dst EXCEPT !.File.Container.Signature =
                  [json |-> "string",
                   v |-> hexdigest([signed |-> [utf8 |-> json_dumps(To_Dict(dst.Metadata))],
                                    by |-> "mallory"])]]
    /\ UNCHANGED EngineVars

NextTampered ==
    \/ NextDescriptor
    \/ Tamper

SpecTampered == InitDescriptor /\ [][NextTampered]_vars

\* C31: when the handler has a verification key and the file carries a
\* signature that does not verify over the plaintext body, Load_Torrent
\* returns no descriptor object.
C31_BadSignatureRejected ==
    ( /\ dst.pc = "loaded"
      /\ dst.handler.RSA /\ dst.handler.Public_Key # None
      /\ dst.File.Container.Signature.json = "string"
      /\ ~ RSA_Verify(dst.handler, [utf8 |-> json_dumps(To_Dict(dst.Metadata))],
                      fromhex(dst.File.Container.Signature.v)) )
    => ~ dst.Loaded.ok

\* C32: a dial whose handshake keeps failing makes at most max_retries
\* attempts, has slept 1, 2, ... (each wait twice the one before) between
\* consecutive attempts, and once it has given up it has made exactly
\* max_retries attempts and its connection is entered in neither peers nor
\* active_peers.
C32_BoundedBackoff ==
    \A c \in Conn :
        conn[c].kind = "dialed" /\ task[c].pc \in {"none", "failed"} =>
            /\ task[c].attempt <= max_retries
            /\ task[c].pc = "none" => task[c].attempt < max_retries
            /\ task[c].slept =
                  [k \in 1..Min(task[c].attempt, max_retries - 1) |-> 2 ^ (k - 1)]
            /\ task[c].pc = "failed" =>
                  /\ task[c].attempt = max_retries
                  /\ \A k \in 1..Len(active_peers["D"]) : active_peers["D"][k].conn # c
                  /\ \A id \in PeerIds : peers["D"][id] # c

\* C32's case: a dial has given up after its last attempt, having slept
\* twice
C32_GaveUpAfterBackoff ==
    \E c \in Conn : /\ conn[c].kind = "dialed" /\ task[c].pc = "failed"
                    /\ Len(task[c].slept) = max_retries - 1

(***************************************************************************)
(* The dialer (connect_to_peers).  The entry of peer_list for peer p, q, r *)
(* is kept in conn at c1, c2, c3: kind "dialed" once a Peer_Connection and *)
(* a task of _connect_single_peer were made for it, kind "candidate" when  *)
(* the call made none.                                                     *)
(***************************************************************************)
MAX_DIALS == 2
PeerLists ==
    { l \in UNION { [1..n -> PeerIds] : n \in 0..Cardinality(PeerIds) } :
        \A j, k \in DOMAIN l : j # k => l[j] # l[k] }

\* connect_to_peers: a task for each of the first max_connections entries
\* whose peer_id is not in active_peers
connect_to_peers(S, peer_list) ==
    LET max_connections == Min(Len(peer_list), MAX_DIALS)
        peer_id(c) == CASE c = "c1" -> "p" [] c = "c2" -> "q" [] OTHER -> "r"
        listed(c) == { k \in DOMAIN peer_list : peer_list[k] = peer_id(c) }
    IN  [S EXCEPT !.conn = [c \in Conn |->
            IF listed(c) = {} THEN S.conn[c]
            ELSE [kind |-> IF /\ \E k \in listed(c) : k <= max_connections
                              /\ \A k \in 1..Len(S.active["D"]) :
                                     S.active["D"][k].Peer_Id # peer_id(c)
                           THEN "dialed" ELSE "candidate",
                  Peer_Id |-> peer_id(c), engine |-> "D", far |-> None]]]

\* Download_Torrent calls connect_to_peers with the tracker's list
ConnectToPeers(peer_list) ==
    /\ \A c \in Conn : conn[c] = NoConn
    /\ peer_list # << >>
    /\ Becomes(connect_to_peers(Now, peer_list))
    /\ UNCHANGED << dst, payload, Piece_Hashes, loaded, delivered, sent_by_peers >>

\* a task of _connect_single_peer makes an attempt
DialCandidate(c, response) ==
    /\ task[c].pc = "none"
    /\ conn[c].kind = "dialed"
    /\ Becomes(connect_peer(Now, c, response))
    /\ UNCHANGED << dst, payload, Piece_Hashes, loaded, delivered, sent_by_peers >>

NextDialer ==
    \/ \E peer_list \in PeerLists : ConnectToPeers(peer_list)
    \/ \E c \in Conn, response \in Handshakes : DialCandidate(c, response)
    \/ \E c \in Conn : Resume(c)
    \/ \E c \in Conn : sendall(c)

SpecDialer == InitSeeders /\ [][NextDialer]_vars

\* C33: at no time are more than MAX_DIALS dials in flight, and when
\* every task connect_to_peers made has finished its attempts, every entry
\* of the list has had a handshake attempted on a connection of its own.
C33_EveryCandidateDialed ==
    /\ Cardinality({ c \in Conn : conn[c].kind = "dialed" /\ task[c].pc = "none" })
          <= MAX_DIALS
    /\ (\A c \in Conn : conn[c].kind = "dialed" => task[c].pc # "none") =>
          \A c \in Conn : conn[c].kind # None => handshake_out[c] # << >>

(***************************************************************************)
(* Peers of which one advertises the first piece only and may leave        *)
(***************************************************************************)
RarityMessages ==
    { create_have_message(0),
      Msg(MSG_BITFIELD, create_bitfield_message(AllPieces, total_pieces).payload),
      Msg(MSG_UNCHOKE, <<>>) }

NextRarity ==
    \/ \E c \in Conn, kind \in {"dialed", "inbound"}, id \in PeerIds :
          Connect(c, kind, id, create_handshake(Piece_Hashes))
    \/ \E c \in Conn : Resume(c)
    \/ \E c \in Conn : sendall(c)
    \/ \E c \in Conn, m \in RarityMessages : ReceiveFromSeeder(c, m)
    \/ \E c \in Conn : Disconnect(c)

SpecRarity == InitSeeders /\ [][NextRarity]_vars

\* C34: when a scheduling round starts on a connection, the pieces it
\* takes up are the first up-to-K of the pieces the peer advertises that
\* are neither held nor requested, in the order of (rarity, piece index),
\* rarity(i) being the number of peers whose Peer_State is connected and
\* whose advertised set contains i.
C34_RarestFirstAmongConnected ==
    [][ \A c \in Conn :
            task[c].pc = "idle" /\ task'[c].pc = "round" =>
                LET ref == peers["D"][conn[c].Peer_Id]
                    available == (peer_state[ref].downloaded_pieces \ have_pieces["D"])
                                     \ requested_pieces["D"]
                    rarity(i) == Cardinality({ id \in PeerIds :
                                     /\ peers["D"][id] # None
                                     /\ peer_state[peers["D"][id]].connected
                                     /\ i \in peer_state[peers["D"][id]].downloaded_pieces })
                    before(i, j) == \/ rarity(i) < rarity(j)
                                    \/ rarity(i) = rarity(j) /\ i <= j
                    chosen == << task'[c].piece_index >> \o task'[c].pieces
                IN  /\ Len(chosen) = Min(K, Cardinality(available))
                    /\ \A k \in 1..Len(chosen) : chosen[k] \in available
                    /\ \A j, k \in 1..Len(chosen) : j < k =>
                           chosen[j] # chosen[k] /\ before(chosen[j], chosen[k])
                    /\ \A i \in available :
                           (\A k \in 1..Len(chosen) : chosen[k] # i) =>
                               \A k \in 1..Len(chosen) : before(chosen[k], i) ]_vars

\* C35: every REQUEST the engine has issued on a connection for piece i
\* has an offset among 0, B, 2B, ... below piece_length(i) and the length
\* min(B, piece_length(i) - offset); once the round is past piece i the
\* offsets requested are all of them, so the lengths sum to
\* piece_length(i); and a buffer that holds a block of the requested length
\* at each requested offset passes _is_piece_complete.
C35_BlockRequestsCoverPiece ==
    \A c \in Conn, i \in AllPieces :
        LET issued == { parse_request_message(wire[c][k].payload) :
                          k \in { j \in 1..Len(wire[c]) : wire[c][j].id = MSG_REQUEST } }
                      \cup { parse_request_message(sending[t].msg.payload) :
                               t \in { u \in Conn : /\ sending[u].to = c
                                                    /\ sending[u].msg.id = MSG_REQUEST } }
            of_i == { r \in issued : r.piece_index = i }
            offsets == { r.block_offset : r \in of_i }
            expected == RangeStep(piece_length(i), BLOCK_SIZE)
            answered == [o \in offsets |->
                            Slice(TruePiece(payload, i), o,
                                  o + (CHOOSE r \in of_i : r.block_offset = o).block_length)]
        IN  /\ \A r \in issued : r.piece_index \in AllPieces
            /\ \A r \in of_i :
                  /\ r.block_offset \in expected
                  /\ r.block_length = Min(BLOCK_SIZE, piece_length(i) - r.block_offset)
                  /\ r.block_length <= BLOCK_SIZE
                  /\ r.block_offset + r.block_length <= piece_length(i)
            /\ ( /\ of_i # {}
                 /\ conn[c].engine = "D"
                 /\ ~ ( /\ task[c].pc = "round" /\ task[c].piece_index = i
                        /\ task[c].block_index < task[c].blocks_needed ) ) =>
                   /\ offsets = expected
                   /\ is_piece_complete([j \in {i} |-> answered], i)
                   /\ Len(AssemblePiece(answered)) = piece_length(i)

\* C35's case: a round has requested a piece of two whole blocks and the
\* final piece, which is shorter than a block
C35_BothPiecesRequested ==
    \E c \in Conn :
        /\ task[c].pc = "idle"
        /\ \A i \in AllPieces :
              Cardinality({ k \in 1..Len(wire[c]) :
                              /\ wire[c][k].id = MSG_REQUEST
                              /\ parse_request_message(wire[c][k].payload).piece_index = i })
                 = Cardinality(RangeStep(piece_length(i), BLOCK_SIZE))
        /\ piece_length(total_pieces - 1) < BLOCK_SIZE

\* Seed_Torrent on a directory whose files have the published lengths and
\* the published bytes but for the last byte, which belongs to the last
\* piece: load_existing_pieces will take every piece but the last
InitPartial ==
    /\ payload \in Payloads
    /\ Piece_Hashes = Create_Torrent(payload)
    /\ disk = [e \in Eng |-> IF e = "D"
                             THEN DiskOf([payload EXCEPT ![Get_Total_Size] = 0])
                             ELSE EmptyDisk]
    /\ conn = [c \in Conn |-> NoConn]
    /\ InitEngines
    /\ dst = [pc |-> "off"]

\* frames of a remote peer that downloads: its interest, REQUESTs for the
\* first block of piece 0 and for the last piece, and a REQUEST that
\* starts at the second block of piece 0 and runs to the end of the content
OverrunMessages ==
    { Msg(MSG_INTERESTED, <<>>),
      create_request_message(0, 0, BLOCK_SIZE),
      create_request_message(total_pieces - 1, 0, piece_length(total_pieces - 1)),
      create_request_message(0, BLOCK_SIZE, Get_Total_Size - BLOCK_SIZE) }

NextPartial ==
    \/ load_existing_pieces("D")
    \/ \E c \in Conn : Accept(c)
    \/ \E c \in Conn : Resume(c)
    \/ \E c \in Conn, m \in OverrunMessages : ReceiveFromLeecher(c, m)
    \/ \E c \in Conn : Disconnect(c)

SpecPartial == InitPartial /\ [][NextPartial]_vars

\* C36: every byte of every PIECE frame the engine has written to a
\* session lies in the global byte range of a piece the engine holds
\* (the ownership set only grows, so a piece that is not held now was not
\* held at the send).
C36_ServedBytesAreHeld ==
    \A c \in Conn :
        conn[c].engine = "D" =>
            \A k \in 1..Len(wire[c]) :
                wire[c][k].id = MSG_PIECE =>
                    LET m == parse_piece_message(wire[c][k].payload)
                        block_start == m.piece_index * Piece_Size + m.block_offset
                    IN  \A g \in block_start..(block_start + Len(m.block_data) - 1) :
                            (g \div Piece_Size) \in have_pieces["D"]

\* PIECE frames for piece 0 of two kinds of remote peer: one that sends a
\* block at an offset that is not a multiple of BLOCK_SIZE or a block of
\* the wrong length, one that sends the published blocks
MisalignedMessages ==
    { piece_message(0, 1, Slice(GoodBlock(0, 0), 0, 1)),
      piece_message(0, 0, Slice(GoodBlock(0, 0), 0, 1)) }
    \cup { piece_message(0, o, GoodBlock(0, o)) : o \in RangeStep(piece_length(0), BLOCK_SIZE) }

NextMisaligned ==
    \/ \E c \in Conn, kind \in {"dialed", "inbound"}, id \in PeerIds :
          Connect(c, kind, id, create_handshake(Piece_Hashes))
    \/ \E c \in Conn : Resume(c)
    \/ \E c \in Conn : sendall(c)
    \/ \E c \in Conn, m \in MisalignedMessages : ReceiveFromSeeder(c, m)
    \/ \E c \in Conn : Disconnect(c)

SpecMisaligned == InitSeeders /\ [][NextMisaligned]_vars

\* C37: when every handler has run to its next wait, a piece of which the
\* engine has been given every published block (the buffer holds the
\* published bytes at each of the offsets 0, B, 2B, ...) has been
\* committed, whatever other blocks the peers sent for it before.
C37_CorrectBlocksCommit ==
    AllTasksAtRest =>
        \A i \in AllPieces :
            ( /\ i \in DOMAIN piece_buffers["D"]
              /\ \A o \in RangeStep(piece_length(i), BLOCK_SIZE) :
                    /\ o \in DOMAIN piece_buffers["D"][i]
                    /\ piece_buffers["D"][i][o] = GoodBlock(i, o) )
            => i \in have_pieces["D"]

\* C38: a step in which the engine hands a REQUEST to a session's socket
\* asks for a piece that is not in the ownership set at that step, also
\* when the step resumes a scheduling round that chose the piece before
\* another session committed it.
C38_NoRequestForHeldPiece ==
    [][ \A c \in Conn :
            conn'[c].engine = "D" =>
                /\ ( /\ sending'[c] # sending[c]
                     /\ sending'[c].to # None
                     /\ sending'[c].msg.id = MSG_REQUEST ) =>
                       parse_request_message(sending'[c].msg.payload).piece_index
                           \notin have_pieces["D"]
                /\ ( /\ conn'[c].kind = "inbound"
                     /\ Len(wire'[c]) > Len(wire[c])
                     /\ wire'[c][Len(wire'[c])].id = MSG_REQUEST ) =>
                       parse_request_message(wire'[c][Len(wire'[c])].payload).piece_index
                           \notin have_pieces["D"] ]_vars

\* C39: every piece index in the scheduler's state, that is in the set of
\* pieces a peer has advertised and in the set of requested pieces, is an
\* index of the torrent, one of 0 .. total_pieces - 1.
C39_IndicesInRange ==
    /\ \A c \in Conn : peer_state[c].downloaded_pieces \subseteq AllPieces
    /\ \A e \in Eng : requested_pieces[e] \subseteq AllPieces

\* Engine D dials three peers of distinct addresses while peers that are
\* connected send the published block of the last piece
NextAnnounce ==
    \/ \E c \in Conn : DialFaulty(c)
    \/ \E c \in Conn : Resume(c)
    \/ \E c \in Conn : sendall(c)
    \/ \E c \in Conn :
          ReceiveFromSeeder(c, piece_message(total_pieces - 1, 0,
                                             GoodBlock(total_pieces - 1, 0)))

SpecAnnounce == InitSeeders /\ [][NextAnnounce]_vars

\* C40: when no task is between two sends and no send is pending, every
\* session that is registered in active_peers and whose handler waits for
\* a frame has been sent each piece of the ownership set, in its BITFIELD
\* or in a HAVE.
C40_EveryHeldPieceAdvertised ==
    ( /\ AllTasksAtRest
      /\ \A t \in Conn : sending[t].to = None ) =>
        \A c \in Conn :
            ( /\ conn[c].engine = "D"
              /\ task[c].pc = "idle"
              /\ \E k \in 1..Len(active_peers["D"]) : active_peers["D"][k].conn = c ) =>
                \A i \in have_pieces["D"] :
                    \E k \in 1..Len(wire[c]) :
                        \/ /\ wire[c][k].id = MSG_BITFIELD
                           /\ i \in parse_bitfield_message(wire[c][k].payload, total_pieces)
                        \/ wire[c][k] = create_have_message(i)

====
